---------------------------- MODULE Spec2Model ----------------------------
(***************************************************************************)
(* Model of the vibecoded registry scripts: the rate-limited GitHub        *)
(* gateway and its direct requests (scripts/lib/github.ts), the detection  *)
(* scorer, the AI-tool probe and the collectors of detect                  *)
(* (scripts/detect.ts), the discovery engine (scripts/discover.ts), the    *)
(* scanner run and the vulnerability normalizer (scripts/scan.ts), the     *)
(* sharded catalog (scripts/lib/shard.ts), add (scripts/add.ts) and the    *)
(* refresh of the catalog (scripts/update-all.ts).                         *)
(*                                                                         *)
(* Each component has its own specification (SpecFetch, SpecGw, SpecScore, *)
(* SpecProbe, SpecDetect, SpecSize, SpecEmoji, SpecPm, SpecDiscover,       *)
(* SpecDiscoverWide, SpecTrivy, SpecScan, SpecStore, SpecAdd, SpecPool,    *)
(* SpecRefresh, SpecParse); the variables of the other components stay at  *)
(* their initial values while one component runs.                          *)
(*                                                                         *)
(* Strings the code inspects (header values, repository names, commit      *)
(* messages) are sequences of one-character strings, so that parseInt,     *)
(* toLowerCase and includes are computed and not assumed.                  *)
(***************************************************************************)
EXTENDS Integers, Sequences, FiniteSets, TLC

VARIABLES
  \* ---- GitHubClient.fetchWithRetry (one call) ----
  fpc,        \* position of the call: "idle" | "loop" | "sleeping" | "returned" | "threw"
  attempt,    \* the local `attempt`
  fetches,    \* number of fetch() calls made by this call
  now,        \* Date.now(), in ms
  resp,       \* the response of the last fetch
  waitMs,     \* the local `waitMs` of the last 403/429 branch (a JS number)
  sleepMs,    \* the delay the timer of line 76 actually runs for
  history,    \* statuses received so far, in order
  result,     \* how the call ended
  \* ---- calculateDetectionSummary / shouldCreateDiscoveryPr ----
  aiToolsIn,  \* the aiTools argument
  cmsIn,      \* the commitMessageSignals argument
  cssIn,      \* the commitSizeSignals argument
  contribIn,  \* the contributorSignals argument
  summary,    \* calculateDetectionSummary of the four arguments
  gate,       \* shouldCreateDiscoveryPr(summary, the same signals)
  gateProbe,  \* shouldCreateDiscoveryPr on a hand-made summary, as the tests call it
  \* ---- hasCursorOrClaude (one detection pass) ----
  ppc,        \* "start" | "files" | "commits" | "done"
  defaultBranch,
  sigIdx,     \* index of the next entry of fileSignals
  aiTools,    \* the evidence list built so far
  seenTools,  \* the seenTools set
  commits,    \* the commits fetched by getRecentCommits
  probes,     \* paths for which hasPath was requested, in order
  \* ---- discover(limit) ----
  dpc,        \* "start" | "query" | "rank" | "verify" | "done"
  limit,
  catalog,    \* full_name values stored in the catalog
  denylist,   \* entries of the denylist file
  existingRepos,
  deniedRepos,
  qIdx,       \* index of the next query
  searchHits, \* <<query index, full name, position in the page, item>> for every hit returned
  candidates, \* the candidates Map, in insertion order
  prioritized,\* prioritizedCandidates
  vIdx,       \* index of the next prioritized candidate
  verified,   \* the verified list
  detectLog,  \* for each detect() started: verified.length at that moment
  returned,   \* the value discover returned
  lastStep,   \* how the latest iteration of each loop ended (see Resolved)
  querySleep, \* ms slept at the end of the latest iteration of the query loop
  \* ---- buildTargetUrl / extractVulnerabilityDetails ----
  report,     \* the Trivy report: a sequence of results
  scanRef,    \* the scanRef argument
  scanOut,    \* extractVulnerabilityDetails(report, RepoName, scanRef)
  urlIn,      \* the arguments of the latest direct buildTargetUrl call
  urlOut,     \* what that call returned
  \* ---- the sharded catalog (data/projects/<key>.json) ----
  shards,     \* the shard files that exist: key -> the projects array of the file
  unreadable, \* keys of the shard files a read rejects: readTextFile or the schema throws
  lastOp,     \* the latest upsertProject / removeProject call and what it returned
  \* ---- updateAll (the worker pool) ----
  upc,        \* "start" | "running" | "synced"
  queue,      \* the shared queue
  workers,    \* per worker: where it is, the project it holds, the shard data it will write
  takenBy,    \* per catalog name: the workers that shifted it off the queue, in order
  finished,    \* names whose upsertProject call has resolved
  \* ---- parse(input) ----
  parseIn,   \* the input of the latest parse call, by the parts it is made of
  parseOut,   \* what that call returned
  \* ---- updateProject(p) (one call) ----
  refPrev,   \* the record p the call is given
  refFresh,   \* what GitHub, detect() and scan() answer during the call
  refOut,   \* the record the call resolved with, and whether it was written back
  refShard,   \* the shard file of the project
  \* ---- detect(fullName) (one call) ----
  detIn,   \* what GitHub answers to the collectors during the call
  detOut,   \* how the call ended: the DetectionResult, or the error it threw
  \* ---- fetchEmojiCount (one call) ----
  epc,   \* "idle" | "loop" | "done"
  ePage,   \* the local page
  eIter,   \* the loop counter i
  eTotal,   \* the local total
  eLog,   \* the pages requested and what each request answered, in order
  eOut,   \* the value returned
  \* ---- detectPackageManager (one call) ----
  pmIn,   \* what GitHub answers during the call: the repository and the files that exist
  pmOut,   \* what the call returned
  \* ---- GitHubClient.hasPath / GitHubClient.getCount (one call) ----
  gwIn,   \* the call made and what the server answers to its request
  gwOut,   \* the fetch calls the call made and what it returned
  \* ---- analyzeCommitSizes (one call) ----
  szIn,   \* the commits argument and what getCommit answers for each sha
  szOut,   \* the shas getCommit was requested for, in order, and the value returned
  \* ---- scan(): one run of the scanner ----
  trivyIn,   \* the exit code and the output of the scanner, the ref scanned
  trivyOut,   \* what scan() returned, or that it threw
  \* ---- add: the catalog and the last call ----
  addFiles,   \* the shard files add reads and writes
  addCall   \* the last call of add: its arguments, the answers and how it ended

fetchVars == <<fpc, attempt, fetches, now, resp, waitMs, sleepMs, history, result>>
scoreVars == <<aiToolsIn, cmsIn, cssIn, contribIn, summary, gate, gateProbe>>
probeVars == <<ppc, defaultBranch, sigIdx, aiTools, seenTools, commits, probes>>
discVars  == <<dpc, limit, catalog, denylist, existingRepos, deniedRepos, qIdx, searchHits,
               candidates, prioritized, vIdx, verified, detectLog, returned, lastStep, querySleep>>
scanVars  == <<report, scanRef, scanOut, urlIn, urlOut>>
storeVars == <<shards, unreadable, lastOp>>
poolVars == <<upc, queue, workers, takenBy, finished>>
parseVars == <<parseIn, parseOut>>
refreshVars == <<refPrev, refFresh, refOut, refShard>>
detectVars == <<detIn, detOut>>
emojiVars == <<epc, ePage, eIter, eTotal, eLog, eOut>>
pmVars == <<pmIn, pmOut>>
gwVars == <<gwIn, gwOut>>
sizeVars == <<szIn, szOut>>
trivyVars == <<trivyIn, trivyOut>>
addVars == <<addFiles, addCall>>
vars == <<fetchVars, scoreVars, probeVars, discVars, scanVars, storeVars, poolVars, parseVars, refreshVars, detectVars, emojiVars, pmVars, gwVars, sizeVars, trivyVars, addVars>>

\* What a step of one component leaves alone.
FetchFrame == UNCHANGED <<scoreVars, probeVars, discVars, scanVars, storeVars, poolVars, parseVars, refreshVars, detectVars, emojiVars, pmVars, gwVars, sizeVars, trivyVars, addVars>>
ScoreFrame == UNCHANGED <<fetchVars, probeVars, discVars, scanVars, storeVars, poolVars, parseVars, refreshVars, detectVars, emojiVars, pmVars, gwVars, sizeVars, trivyVars, addVars>>
ProbeFrame == UNCHANGED <<fetchVars, scoreVars, discVars, scanVars, storeVars, poolVars, parseVars, refreshVars, detectVars, emojiVars, pmVars, gwVars, sizeVars, trivyVars, addVars>>
DiscFrame == UNCHANGED <<fetchVars, scoreVars, probeVars, scanVars, storeVars, poolVars, parseVars, refreshVars, detectVars, emojiVars, pmVars, gwVars, sizeVars, trivyVars, addVars>>
ScanFrame == UNCHANGED <<fetchVars, scoreVars, probeVars, discVars, storeVars, poolVars, parseVars, refreshVars, detectVars, emojiVars, pmVars, gwVars, sizeVars, trivyVars, addVars>>
StoreFrame == UNCHANGED <<fetchVars, scoreVars, probeVars, discVars, scanVars, poolVars, parseVars, refreshVars, detectVars, emojiVars, pmVars, gwVars, sizeVars, trivyVars, addVars>>
ParseFrame == UNCHANGED <<fetchVars, scoreVars, probeVars, discVars, scanVars, storeVars, poolVars, refreshVars, detectVars, emojiVars, pmVars, gwVars, sizeVars, trivyVars, addVars>>
RefreshFrame == UNCHANGED <<fetchVars, scoreVars, probeVars, discVars, scanVars, storeVars, poolVars, parseVars, detectVars, emojiVars, pmVars, gwVars, sizeVars, trivyVars, addVars>>
DetectFrame == UNCHANGED <<fetchVars, scoreVars, probeVars, discVars, scanVars, storeVars, poolVars, parseVars, refreshVars, emojiVars, pmVars, gwVars, sizeVars, trivyVars, addVars>>
EmojiFrame == UNCHANGED <<fetchVars, scoreVars, probeVars, discVars, scanVars, storeVars, poolVars, parseVars, refreshVars, detectVars, pmVars, gwVars, sizeVars, trivyVars, addVars>>
PmFrame == UNCHANGED <<fetchVars, scoreVars, probeVars, discVars, scanVars, storeVars, poolVars, parseVars, refreshVars, detectVars, emojiVars, gwVars, sizeVars, trivyVars, addVars>>
GwFrame == UNCHANGED <<fetchVars, scoreVars, probeVars, discVars, scanVars, storeVars, poolVars, parseVars, refreshVars, detectVars, emojiVars, pmVars, sizeVars, trivyVars, addVars>>
SizeFrame == UNCHANGED <<fetchVars, scoreVars, probeVars, discVars, scanVars, storeVars, poolVars, parseVars, refreshVars, detectVars, emojiVars, pmVars, gwVars, trivyVars, addVars>>
TrivyFrame == UNCHANGED <<fetchVars, scoreVars, probeVars, discVars, scanVars, storeVars, poolVars, parseVars, refreshVars, detectVars, emojiVars, pmVars, gwVars, sizeVars, addVars>>
AddFrame == UNCHANGED <<fetchVars, scoreVars, probeVars, discVars, scanVars, storeVars, poolVars, parseVars, refreshVars, detectVars, emojiVars, pmVars, gwVars, sizeVars, trivyVars>>
\* The worker pool writes the shards.
PoolFrame == UNCHANGED <<fetchVars, scoreVars, probeVars, discVars, scanVars, unreadable, lastOp, parseVars, refreshVars, detectVars, emojiVars, pmVars, gwVars, sizeVars, trivyVars, addVars>>

-----------------------------------------------------------------------------
(* JavaScript values the code computes with.                               *)

\* A JS number: an integer or NaN.
Num(v) == [nan |-> FALSE, v |-> v]
NaN == [nan |-> TRUE, v |-> 0]

\* a * b, a - b, a + b, Math.min, Math.max: NaN is contagious.
JsMul(a, b) == IF a.nan \/ b.nan THEN NaN ELSE Num(a.v * b.v)
JsSub(a, b) == IF a.nan \/ b.nan THEN NaN ELSE Num(a.v - b.v)
JsAdd(a, b) == IF a.nan \/ b.nan THEN NaN ELSE Num(a.v + b.v)
MathMin(a, b) == IF a.nan \/ b.nan THEN NaN ELSE Num(IF a.v <= b.v THEN a.v ELSE b.v)
MathMax(a, b) == IF a.nan \/ b.nan THEN NaN ELSE Num(IF a.v >= b.v THEN a.v ELSE b.v)
\* x === 0
IsZero(a) == ~a.nan /\ a.v = 0

\* A header value as headers.get returns it: null or a string.
Absent == [has |-> FALSE, val |-> <<>>]
Hdr(s) == [has |-> TRUE, val |-> s]
\* if (value): null and "" are falsy.
Truthy(h) == h.has /\ h.val # <<>>

DigitChars == {"0", "1", "2", "3", "4", "5", "6", "7", "8", "9"}
DigitVal(c) ==
  CASE c = "0" -> 0 [] c = "1" -> 1 [] c = "2" -> 2 [] c = "3" -> 3 [] c = "4" -> 4
    [] c = "5" -> 5 [] c = "6" -> 6 [] c = "7" -> 7 [] c = "8" -> 8 [] c = "9" -> 9

RECURSIVE SkipWs(_)
SkipWs(s) == IF s # <<>> /\ s[1] = " " THEN SkipWs(Tail(s)) ELSE s

RECURSIVE DigitPrefix(_)
DigitPrefix(s) ==
  IF s # <<>> /\ s[1] \in DigitChars THEN <<s[1]>> \o DigitPrefix(Tail(s)) ELSE <<>>

RECURSIVE DigitsValue(_, _)
DigitsValue(ds, acc) ==
  IF ds = <<>> THEN acc ELSE DigitsValue(Tail(ds), acc * 10 + DigitVal(ds[1]))

\* parseInt(s, 10): leading blanks, an optional sign, then the longest run of
\* digits; NaN when there is no digit.
ParseInt(s) ==
  LET t == SkipWs(s)
      signed == t # <<>> /\ t[1] \in {"+", "-"}
      u == IF signed THEN Tail(t) ELSE t
      ds == DigitPrefix(u)
  IN  IF ds = <<>> THEN NaN
      ELSE IF signed /\ t[1] = "-" THEN Num(0 - DigitsValue(ds, 0))
      ELSE Num(DigitsValue(ds, 0))


-----------------------------------------------------------------------------
(* GitHubClient.fetchWithRetry, scripts/lib/github.ts:40-94                *)

maxRetries == 5
maxWaitMs == 5 * 60 * 1000
defaultSecondaryWaitMs == 90 * 1000

\* response.ok
ResponseOk(status) == status >= 200 /\ status <= 299
\* response.status === 403 || response.status === 429
IsRateLimit_only429(status) == status = 429
IsRateLimit(status) == status = 403 \/ status = 429

\* Retry-After branch (lines 57-61); 0 when the header is missing or empty.
RetryAfterWait(r) ==
  IF Truthy(r.retryAfter)
  THEN LET secs == ParseInt(r.retryAfter.val)
       IN  IF secs.nan THEN Num(defaultSecondaryWaitMs)
           ELSE MathMin(JsMul(secs, Num(1000)), Num(maxWaitMs))
  ELSE Num(0)

\* x-ratelimit-reset branch (lines 62-71), entered when waitMs === 0.
ResetWait(r, w, nowMs) ==
  IF IsZero(w) /\ Truthy(r.rateLimitReset)
  THEN LET resetTime == JsMul(ParseInt(r.rateLimitReset.val), Num(1000))
       IN  MathMin(JsAdd(MathMax(JsSub(resetTime, Num(nowMs)), Num(1000)), Num(1000)),
                   Num(maxWaitMs))
  ELSE w

\* The waitMs the 403/429 branch ends with (lines 56-74).
ComputeWaitMs(r, nowMs) ==
  LET w == ResetWait(r, RetryAfterWait(r), nowMs)
  IN  IF IsZero(w) THEN Num(defaultSecondaryWaitMs) ELSE w

\* setTimeout(resolve, waitMs): a delay that is NaN or negative runs as 0.
TimerDelay(w) == IF w.nan \/ w.v < 0 THEN 0 ELSE w.v

\* while (attempt < maxRetries)
LoopCond_off(a) == a <= maxRetries
LoopCond(a) == a < maxRetries

\* Header values a server may send.
RetryAfterValues ==
  { Absent, Hdr(<<>>), Hdr(<<"0">>), Hdr(<<"-", "5">>), Hdr(<<"a", "b">>),
    Hdr(<<"1">>), Hdr(<<"6", "0">>), Hdr(<<"3", "0", "0">>), Hdr(<<"3", "0", "1">>) }
RateLimitResetValues ==
  { Absent, Hdr(<<>>), Hdr(<<"0">>), Hdr(<<"x">>), Hdr(<<"-", "3">>),
    Hdr(<<"1", "0", "0", "1">>), Hdr(<<"1", "1", "0", "0">>),
    Hdr(<<"1", "2", "9", "8">>), Hdr(<<"1", "2", "9", "9">>),
    Hdr(<<"9", "9", "9", "9", "9">>) }
\* Clock readings (ms): around second 1000 of the epoch.
NowValues == { 1000 * 1000, 1000 * 1000 + 500 }
Statuses == { 200, 204, 304, 403, 404, 429, 500 }
Bodies == { "", "Not Found" }

Responses ==
  [status : Statuses, retryAfter : RetryAfterValues,
   rateLimitReset : RateLimitResetValues, body : Bodies]
NoResponse == [status |-> 0, retryAfter |-> Absent, rateLimitReset |-> Absent, body |-> ""]
NoResult == [kind |-> "none"]

FetchInit ==
  /\ fpc = "idle" /\ attempt = 0 /\ fetches = 0 /\ now = 0
  /\ resp = NoResponse /\ waitMs = Num(0) /\ sleepMs = 0
  /\ history = <<>> /\ result = NoResult

\* fetchWithRetry(url, options) is called.
FetchCall ==
  /\ fpc = "idle"
  /\ fpc' = "loop" /\ attempt' = 0
  /\ UNCHANGED <<fetches, now, resp, waitMs, sleepMs, history, result>>
  /\ FetchFrame

\* fetch() resolves with 403 or 429: compute waitMs and start the timer.
FetchRateLimited ==
  /\ fpc = "loop" /\ LoopCond(attempt)
  /\ \E r \in Responses, n \in NowValues :
       /\ IsRateLimit(r.status) /\ r.body = ""
       /\ resp' = r /\ now' = n
       /\ waitMs' = ComputeWaitMs(r, n)
       /\ sleepMs' = TimerDelay(ComputeWaitMs(r, n))
       /\ history' = Append(history, r.status)
  /\ fetches' = fetches + 1
  /\ fpc' = "sleeping"
  /\ UNCHANGED <<attempt, result>>
  /\ FetchFrame

\* The timer fires: attempt++; continue. The locals of the iteration (response,
\* waitMs) go out of scope.
FetchSleepDone ==
  /\ fpc = "sleeping"
  /\ attempt' = attempt + 1
  /\ fpc' = "loop"
  /\ resp' = NoResponse /\ waitMs' = Num(0) /\ sleepMs' = 0 /\ now' = 0
  /\ UNCHANGED <<fetches, history, result>>
  /\ FetchFrame

\* fetch() resolves with a non-2xx status other than 403/429: throw GitHubError.
FetchNotOk ==
  /\ fpc = "loop" /\ LoopCond(attempt)
  /\ \E r \in Responses :
       /\ ~IsRateLimit(r.status) /\ ~ResponseOk(r.status)
       /\ r.retryAfter = Absent /\ r.rateLimitReset = Absent
       /\ resp' = r
       /\ history' = Append(history, r.status)
       /\ result' = [kind |-> "GitHubError", status |-> r.status, body |-> r.body]
  /\ fetches' = fetches + 1
  /\ fpc' = "threw"
  /\ UNCHANGED <<attempt, now, waitMs, sleepMs>>
  /\ FetchFrame

\* fetch() resolves with a 2xx status: return response.
FetchOk ==
  /\ fpc = "loop" /\ LoopCond(attempt)
  /\ \E r \in Responses :
       /\ ResponseOk(r.status)
       /\ r.retryAfter = Absent /\ r.rateLimitReset = Absent
       /\ resp' = r
       /\ history' = Append(history, r.status)
       /\ result' = [kind |-> "response", status |-> r.status, body |-> r.body]
  /\ fetches' = fetches + 1
  /\ fpc' = "returned"
  /\ UNCHANGED <<attempt, now, waitMs, sleepMs>>
  /\ FetchFrame

\* fetch() rejects (network failure): the rejection leaves fetchWithRetry.
FetchRejects ==
  /\ fpc = "loop" /\ LoopCond(attempt)
  /\ fetches' = fetches + 1
  /\ result' = [kind |-> "FetchRejected"]
  /\ fpc' = "threw"
  /\ UNCHANGED <<attempt, now, resp, waitMs, sleepMs, history>>
  /\ FetchFrame

\* The loop ends: throw new Error("Max retries exceeded for GitHub API request.").
FetchMaxRetries ==
  /\ fpc = "loop" /\ ~LoopCond(attempt)
  /\ result' = [kind |-> "Error", message |-> "Max retries exceeded for GitHub API request."]
  /\ fpc' = "threw"
  /\ UNCHANGED <<attempt, fetches, now, resp, waitMs, sleepMs, history>>
  /\ FetchFrame


-----------------------------------------------------------------------------
(* calculateDetectionSummary and shouldCreateDiscoveryPr,                  *)
(* scripts/detect.ts:230-282                                               *)

VIBE_SCORE_PR_THRESHOLD == 7

\* Bounds of the scorer's inputs.
MaxTools == 3
MaxDash == 1
MaxMentions == 3
MaxLarge == 1

\* aiTools.filter((t) => t.detected_via === via).length
CountVia(tools, via) == Len(SelectSeq(tools, LAMBDA t : t.detected_via = via))

\* if (fileSignals > 0) score += fileSignals * 4
FilePoints_three(tools) ==
  LET fileSignals == CountVia(tools, "file")
  IN  IF fileSignals > 0 THEN fileSignals * 3 ELSE 0
FilePoints(tools) ==
  LET fileSignals == CountVia(tools, "file")
  IN  IF fileSignals > 0 THEN fileSignals * 4 ELSE 0

\* if (commitSignals > 0) score += commitSignals * 2
CommitPoints(tools) ==
  LET commitSignals == CountVia(tools, "commits")
  IN  IF commitSignals > 0 THEN commitSignals * 2 ELSE 0

\* if (contributorSignals.hasClaudeBotContributor) score += 3
BotPoints(contrib) == IF contrib.hasClaudeBotContributor THEN 3 ELSE 0

\* if (emDashCount > 0 || enDashCount > 0) score += 1
DashPoints(cms) == IF cms.emDashCount > 0 \/ cms.enDashCount > 0 THEN 1 ELSE 0

\* if (aiMentionCount >= 2) score += 2
MentionPoints_exact(cms) == IF cms.aiMentionCount = 2 THEN 2 ELSE 0
MentionPoints(cms) == IF cms.aiMentionCount >= 2 THEN 2 ELSE 0

\* if (largeCommitCount > 0) score += 1
LargePoints(css) == IF css.largeCommitCount > 0 THEN 1 ELSE 0

\* const level = score >= 9 ? "high" : score >= 5 ? "medium" : "low"
LevelOf_strict(score) == IF score > 9 THEN "high" ELSE IF score >= 5 THEN "medium" ELSE "low"
LevelOf(score) == IF score >= 9 THEN "high" ELSE IF score >= 5 THEN "medium" ELSE "low"

\* The reasons pushed, in the order of the six tests.
ReasonsOf(tools, cms, css, contrib) ==
  (IF CountVia(tools, "file") > 0
     THEN << <<CountVia(tools, "file"), "file-based AI signal(s)">> >> ELSE <<>>)
  \o (IF CountVia(tools, "commits") > 0
     THEN << <<CountVia(tools, "commits"), "commit-message AI signal(s)">> >> ELSE <<>>)
  \o (IF contrib.hasClaudeBotContributor
     THEN << <<"claude bot contributor detected">> >> ELSE <<>>)
  \o (IF cms.emDashCount > 0 \/ cms.enDashCount > 0
     THEN << <<"dash punctuation pattern present in commits">> >> ELSE <<>>)
  \o (IF cms.aiMentionCount >= 2
     THEN << <<"multiple AI mentions in commit messages">> >> ELSE <<>>)
  \o (IF css.largeCommitCount > 0 THEN << <<"large commits detected">> >> ELSE <<>>)

calculateDetectionSummary(tools, cms, css, contrib) ==
  LET score == 0 + FilePoints(tools) + CommitPoints(tools) + BotPoints(contrib)
                 + DashPoints(cms) + MentionPoints(cms) + LargePoints(css)
  IN  [score |-> score, level |-> LevelOf(score),
       reasons |-> ReasonsOf(tools, cms, css, contrib)]

\* if (summary.score < VIBE_SCORE_PR_THRESHOLD) return false
BelowThreshold_off(score) == score <= VIBE_SCORE_PR_THRESHOLD
BelowThreshold(score) == score < VIBE_SCORE_PR_THRESHOLD

shouldCreateDiscoveryPr(sum, tools, contrib, cms) ==
  IF BelowThreshold(sum.score) THEN FALSE
  ELSE LET fileSignals == CountVia(tools, "file")
           hasCommitAiPattern == cms.aiMentionCount >= 2
       IN  fileSignals > 0 \/ hasCommitAiPattern \/ contrib.hasClaudeBotContributor

\* Evidence items handed to the scorer.
ScoreEvidence ==
  { [name |-> "cursor", detected_via |-> "file", evidence_url |-> "u"],
    [name |-> "claude", detected_via |-> "commits", evidence_url |-> "u"],
    [name |-> "vibe", detected_via |-> "commits", evidence_url |-> "u"] }
NoProbe == [score |-> -1, out |-> FALSE]
NoBot == [hasClaudeBotContributor |-> FALSE, matchedBots |-> <<>>]
ZeroMessages ==
  [sampleSize |-> 0, avgMessageLength |-> 0, emDashCount |-> 0, enDashCount |-> 0,
   aiMentionCount |-> 0]
ZeroSizes == [sampledCommits |-> 0, avgChanges |-> 0, medianChanges |-> 0, largeCommitCount |-> 0]

ScoreInit ==
  /\ aiToolsIn = <<>> /\ cmsIn = ZeroMessages /\ cssIn = ZeroSizes /\ contribIn = NoBot
  /\ summary = calculateDetectionSummary(<<>>, ZeroMessages, ZeroSizes, NoBot)
  /\ gate = shouldCreateDiscoveryPr(
              calculateDetectionSummary(<<>>, ZeroMessages, ZeroSizes, NoBot),
              <<>>, NoBot, ZeroMessages)
  /\ gateProbe = NoProbe

\* The scorer and the gate applied to the arguments (t, m, z, c), as detect() and
\* discover() apply them.
Rescore(t, m, z, c) ==
  /\ aiToolsIn' = t /\ cmsIn' = m /\ cssIn' = z /\ contribIn' = c
  /\ summary' = calculateDetectionSummary(t, m, z, c)
  /\ gate' = shouldCreateDiscoveryPr(calculateDetectionSummary(t, m, z, c), t, c, m)
  /\ gateProbe' = NoProbe

ScoreAddEvidence ==
  /\ Len(aiToolsIn) < MaxTools
  /\ \E e \in ScoreEvidence : Rescore(Append(aiToolsIn, e), cmsIn, cssIn, contribIn)
  /\ ScoreFrame

ScoreAddBot ==
  /\ ~contribIn.hasClaudeBotContributor
  /\ Rescore(aiToolsIn, cmsIn, cssIn,
             [hasClaudeBotContributor |-> TRUE, matchedBots |-> <<"claude[bot]">>])
  /\ ScoreFrame

ScoreAddEmDash ==
  /\ cmsIn.emDashCount < MaxDash
  /\ Rescore(aiToolsIn, [cmsIn EXCEPT !.emDashCount = @ + 1], cssIn, contribIn)
  /\ ScoreFrame

ScoreAddEnDash ==
  /\ cmsIn.enDashCount < MaxDash
  /\ Rescore(aiToolsIn, [cmsIn EXCEPT !.enDashCount = @ + 1], cssIn, contribIn)
  /\ ScoreFrame

ScoreAddMention ==
  /\ cmsIn.aiMentionCount < MaxMentions
  /\ Rescore(aiToolsIn, [cmsIn EXCEPT !.aiMentionCount = @ + 1], cssIn, contribIn)
  /\ ScoreFrame

ScoreAddLargeCommit ==
  /\ cssIn.largeCommitCount < MaxLarge
  /\ Rescore(aiToolsIn, cmsIn, [cssIn EXCEPT !.largeCommitCount = @ + 1], contribIn)
  /\ ScoreFrame

\* shouldCreateDiscoveryPr called with a summary built by hand, at or just below the
\* threshold (logic_test.ts:103-126).
ScoreGateProbe ==
  /\ gateProbe = NoProbe
  /\ \E s \in {VIBE_SCORE_PR_THRESHOLD - 1, VIBE_SCORE_PR_THRESHOLD} :
       gateProbe' =
         [score |-> s,
          out |-> shouldCreateDiscoveryPr([score |-> s, level |-> "medium", reasons |-> <<>>],
                                          aiToolsIn, contribIn, cmsIn)]
  /\ UNCHANGED <<aiToolsIn, cmsIn, cssIn, contribIn, summary, gate>>
  /\ ScoreFrame


-----------------------------------------------------------------------------
(* String operations on sequences of characters.                           *)

UpperChars == <<"A", "B", "C", "D", "E", "F", "G", "H", "I", "J", "K", "L", "M", "N", "O", "P", "Q", "R", "S", "T", "U", "V", "W", "X", "Y", "Z">>
LowerChars == <<"a", "b", "c", "d", "e", "f", "g", "h", "i", "j", "k", "l", "m", "n", "o", "p", "q", "r", "s", "t", "u", "v", "w", "x", "y", "z">>

\* One character of String.prototype.toLowerCase.
LowerChar(c) ==
  IF \E i \in DOMAIN UpperChars : UpperChars[i] = c
  THEN LowerChars[CHOOSE i \in DOMAIN UpperChars : UpperChars[i] = c]
  ELSE c

\* s.toLowerCase()
ToLowerCase(s) == [i \in DOMAIN s |-> LowerChar(s[i])]

\* s.includes(t)
Includes(s, t) ==
  \E i \in 1..(Len(s) - Len(t) + 1) : SubSeq(s, i, i + Len(t) - 1) = t

-----------------------------------------------------------------------------
(* hasCursorOrClaude, scripts/detect.ts:54-131                             *)

\* Bound: commits returned by getRecentCommits.
MaxCommits == 2

fileSignals ==
  << [tool |-> "cursor",   path |-> ".cursor",       isDirectory |-> TRUE],
     [tool |-> "cursor",   path |-> ".cursorrules",  isDirectory |-> FALSE],
     [tool |-> "cursor",   path |-> ".cursor/rules", isDirectory |-> TRUE],
     [tool |-> "claude",   path |-> "CLAUDE.md",     isDirectory |-> FALSE],
     [tool |-> "claude",   path |-> "claude.md",     isDirectory |-> FALSE],
     [tool |-> "claude",   path |-> "AGENTS.md",     isDirectory |-> FALSE],
     [tool |-> "copilot",  path |-> ".github/copilot-instructions.md", isDirectory |-> FALSE],
     [tool |-> "windsurf", path |-> ".windsurfrules", isDirectory |-> FALSE],
     [tool |-> "gemini",   path |-> "GEMINI.md",     isDirectory |-> FALSE],
     [tool |-> "aider",    path |-> ".aider.conf.yml", isDirectory |-> FALSE] >>

\* The seven tests of the commit loop, in the order of lines 97-124.
commitSignals ==
  << [tool |-> "cursor",   terms |-> {<<"c", "u", "r", "s", "o", "r">>}],
     [tool |-> "claude",   terms |-> {<<"c", "l", "a", "u", "d", "e">>}],
     [tool |-> "gemini",   terms |-> {<<"g", "e", "m", "i", "n", "i">>}],
     [tool |-> "copilot",  terms |-> {<<"c", "o", "p", "i", "l", "o", "t">>}],
     [tool |-> "windsurf", terms |-> {<<"w", "i", "n", "d", "s", "u", "r", "f">>}],
     [tool |-> "aider",    terms |-> {<<"a", "i", "d", "e", "r">>}],
     [tool |-> "vibe",     terms |-> {<<"v", "i", "b", "e", " ", "c", "o", "d", "e", "d">>,
                                      <<"v", "i", "b", "e", "-", "c", "o", "d", "e", "d">>}] >>

\* repoInfo?.default_branch when it is a non-empty string, else "main" (lines 61-64).
DefaultBranchOf(repoInfo) ==
  IF repoInfo.ok /\ repoInfo.default_branch # "" THEN repoInfo.default_branch ELSE "main"

RepoInfos ==
  { [ok |-> FALSE, default_branch |-> ""], [ok |-> TRUE, default_branch |-> ""],
    [ok |-> TRUE, default_branch |-> "main"], [ok |-> TRUE, default_branch |-> "develop"] }

\* !seenTools.has(tool)
NotSeen_skipped(seen, tool) == TRUE
NotSeen(seen, tool) == tool \notin seen

\* seenTools.add(signal.tool) of the file loop (line 88)
FileSeen(seen, tool) == seen \cup {tool}

\* Lines 79-89 for one entry of fileSignals, given what hasPath answered.
FileStep(acc, signal, exists, fullName, branch) ==
  IF ~exists THEN acc
  ELSE IF signal.tool \in acc.seen THEN acc
  ELSE [tools |-> Append(acc.tools,
                   [name |-> signal.tool, detected_via |-> "file",
                    evidence_url |-> <<"https://github.com", fullName,
                                       IF signal.isDirectory THEN "tree" ELSE "blob",
                                       branch, signal.path>>]),
        seen |-> FileSeen(acc.seen, signal.tool)]

\* c.commit?.message ?? ""
MessageOf(c) == IF c.hasMessage THEN c.message ELSE <<>>

\* One `if` of the commit loop for the test k on the lower-cased message msg.
RECURSIVE CommitTests(_, _, _, _)
CommitTests(acc, msg, url, k) ==
  IF k > Len(commitSignals) THEN acc
  ELSE LET sig == commitSignals[k]
           hit == NotSeen(acc.seen, sig.tool) /\ \E t \in sig.terms : Includes(msg, t)
       IN  CommitTests(
             IF hit
             THEN [tools |-> Append(acc.tools,
                     [name |-> sig.tool, detected_via |-> "commits", evidence_url |-> url]),
                   seen |-> acc.seen \cup {sig.tool}]
             ELSE acc,
             msg, url, k + 1)

\* for (const c of commits) { ... } (lines 94-125)
RECURSIVE CommitLoop(_, _, _)
CommitLoop(acc, cs, i) ==
  IF i > Len(cs) THEN acc
  ELSE CommitLoop(CommitTests(acc, ToLowerCase(MessageOf(cs[i])), cs[i].html_url, 1),
                  cs, i + 1)

\* Commit messages a repository may carry.
Messages ==
  { <<"C", "u", "r", "s", "o", "r">>,
    <<"b", "y", " ", "C", "L", "A", "U", "D", "E">>,
    <<"c", "l", "a", "u", "d", "e", " ", "v", "i", "b", "e", "-", "c", "o", "d", "e", "d">>,
    <<"V", "i", "b", "e", " ", "C", "o", "d", "e", "d", " ", "g", "e", "m", "i", "n", "i">> }

\* The i-th commit of a page: its message (or none) and its permalink.
Commit(m, i) == [hasMessage |-> TRUE, message |-> m, html_url |-> <<"commit", i>>, sha |-> <<"sha", i>>]
BareCommit(i) == [hasMessage |-> FALSE, message |-> <<>>, html_url |-> <<"commit", i>>, sha |-> <<"sha", i>>]

\* The pages getRecentCommits may resolve with.
RECURSIVE CommitPages(_)
CommitPages(n) ==
  IF n = 0 THEN { <<>> }
  ELSE LET shorter == CommitPages(n - 1)
       IN  shorter \cup
           { Append(p, c) : p \in { q \in shorter : Len(q) = n - 1 },
                            c \in { Commit(m, n) : m \in Messages } \cup { BareCommit(n) } }

NoCommits == [isArray |-> TRUE, items |-> <<>>]
ProbeRepo == "acme/repo"

ProbeInit ==
  /\ ppc = "start" /\ defaultBranch = "main" /\ sigIdx = 1
  /\ aiTools = <<>> /\ seenTools = {} /\ commits = NoCommits /\ probes = <<>>

\* github.getRepo(fullName).catch(() => null) and the default branch.
ProbeGetRepo ==
  /\ ppc = "start"
  /\ \E info \in RepoInfos : defaultBranch' = DefaultBranchOf(info)
  /\ ppc' = "files"
  /\ UNCHANGED <<sigIdx, aiTools, seenTools, commits, probes>>
  /\ ProbeFrame

\* One iteration of the file loop: hasPath answers, then lines 81-88.
ProbeFile ==
  /\ ppc = "files" /\ sigIdx <= Len(fileSignals)
  /\ \E exists \in BOOLEAN :
       LET acc == FileStep([tools |-> aiTools, seen |-> seenTools], fileSignals[sigIdx],
                           exists, ProbeRepo, defaultBranch)
       IN  aiTools' = acc.tools /\ seenTools' = acc.seen
  /\ probes' = Append(probes, fileSignals[sigIdx].path)
  /\ sigIdx' = sigIdx + 1
  /\ UNCHANGED <<ppc, defaultBranch, commits>>
  /\ ProbeFrame

\* The file loop is over; getRecentCommits is requested.
ProbeFilesDone ==
  /\ ppc = "files" /\ sigIdx > Len(fileSignals)
  /\ ppc' = "commits"
  /\ UNCHANGED <<defaultBranch, sigIdx, aiTools, seenTools, commits, probes>>
  /\ ProbeFrame

\* getRecentCommits resolves with an array: the commit loop runs to its end.
ProbeCommits ==
  /\ ppc = "commits"
  /\ \E page \in CommitPages(MaxCommits) :
       LET acc == CommitLoop([tools |-> aiTools, seen |-> seenTools], page, 1)
       IN  /\ commits' = [isArray |-> TRUE, items |-> page]
           /\ aiTools' = acc.tools /\ seenTools' = acc.seen
  /\ ppc' = "done"
  /\ UNCHANGED <<defaultBranch, sigIdx, probes>>
  /\ ProbeFrame

\* getRecentCommits rejects: caught at line 126, commits stays [].
ProbeCommitsFail ==
  /\ ppc = "commits"
  /\ ppc' = "done"
  /\ UNCHANGED <<defaultBranch, sigIdx, aiTools, seenTools, commits, probes>>
  /\ ProbeFrame

\* getRecentCommits resolves with a value that is no array (an error object): it is
\* assigned to commits, the for-of throws and is caught at line 126.
ProbeCommitsNotArray ==
  /\ ppc = "commits"
  /\ commits' = [isArray |-> FALSE, items |-> <<>>]
  /\ ppc' = "done"
  /\ UNCHANGED <<defaultBranch, sigIdx, aiTools, seenTools, probes>>
  /\ ProbeFrame


-----------------------------------------------------------------------------
(* discover(limit), scripts/discover.ts:55-229                             *)

\* Bound: the limit argument ranges over 0..MaxLimit.
MaxLimit == 2

\* The query battery (lines 64-120).
queries ==
  << [query |-> "archived:false fork:false path:.cursorrules",  type |-> "code",   score |-> 4],
     [query |-> "archived:false fork:false path:.cursor/rules", type |-> "code",   score |-> 4],
     [query |-> "archived:false fork:false path:CLAUDE.md",     type |-> "code",   score |-> 4],
     [query |-> "archived:false fork:false path:AGENTS.md",     type |-> "code",   score |-> 3],
     [query |-> "archived:false fork:false path:.windsurfrules", type |-> "code",  score |-> 3],
     [query |-> "topic:vibe-coded archived:false fork:false",   type |-> "repo",   score |-> 5],
     [query |-> "\"vibe coded\" in:description archived:false fork:false",
                                                                type |-> "repo",   score |-> 4],
     [query |-> "cursor in:message archived:false fork:false",  type |-> "commit", score |-> 2],
     [query |-> "claude in:message archived:false fork:false",  type |-> "commit", score |-> 2],
     [query |-> "copilot in:message archived:false fork:false", type |-> "commit", score |-> 2],
     [query |-> "gemini in:message archived:false fork:false",  type |-> "commit", score |-> 2] >>

\* A value that may be null or undefined.
Null == [has |-> FALSE, v |-> 0]
NoText == [has |-> FALSE, v |-> ""]
Some(x) == [has |-> TRUE, v |-> x]
\* a ?? b
Coalesce(a, b) == IF a.has THEN a ELSE b

\* new Set(xs.map((r) => r.toLowerCase()))
LowerSet(names) == { ToLowerCase(n) : n \in names }

\* const lowerName = item.full_name.toLowerCase() (line 155)
LowerName_asis(fullName) == fullName
LowerName(fullName) == ToLowerCase(fullName)

\* !existingRepos.has(lowerName) && !deniedRepos.has(lowerName) (line 156)
IsNew(fullName, existing, denied) ==
  LowerName(fullName) \notin existing /\ LowerName(fullName) \notin denied

\* candidates.get(item.full_name): the index of the entry, 0 when there is none.
IndexOfKey(cands, key) ==
  IF \E i \in DOMAIN cands : cands[i].key = key
  THEN CHOOSE i \in DOMAIN cands : cands[i].key = key
  ELSE 0

\* Math.min(3, Math.floor(stars / 25))
StarScore(stars) == IF stars \div 25 < 3 THEN stars \div 25 ELSE 3
\* Math.max(a, b)
MaxOf_latest(a, b) == b
MaxOf(a, b) == IF a >= b THEN a ELSE b

\* Lines 155-176 for one item of the page of `search`.
MergeItem(cands, item, search, existing, denied) ==
  IF ~IsNew(item.full_name, existing, denied) THEN cands
  ELSE LET k == IndexOfKey(cands, item.full_name)
           stars == Coalesce(item.stars, IF k = 0 THEN Some(0) ELSE Some(cands[k].stars)).v
           baseScore == search.score + StarScore(stars)
       IN  IF k = 0
           THEN Append(cands,
                  [key |-> item.full_name, description |-> item.description,
                   stars |-> stars, score |-> baseScore, matchedQueries |-> <<search.query>>])
           ELSE [cands EXCEPT ![k] =
                  [key |-> @.key,
                   description |-> Coalesce(@.description, item.description),
                   stars |-> MaxOf(@.stars, stars),
                   score |-> @.score + baseScore,
                   matchedQueries |->
                     IF \E j \in DOMAIN @.matchedQueries : @.matchedQueries[j] = search.query
                     THEN @.matchedQueries
                     ELSE Append(@.matchedQueries, search.query)]]

\* for (const item of items) { ... } (lines 154-177)
RECURSIVE MergePage(_, _, _, _, _, _)
MergePage(cands, items, i, search, existing, denied) ==
  IF i > Len(items) THEN cands
  ELSE MergePage(MergeItem(cands, items[i], search, existing, denied),
                 items, i + 1, search, existing, denied)

\* The delay of line 179.
QueryDelayMs == 1500

\* per_page of the three searches (lines 132, 139, 146)
PerPage == 30

\* if (candidates.size >= limit * 8) break (line 126)
PoolFull_after(cands, lim) == Len(cands) > lim * 8
PoolFull(cands, lim) == Len(cands) >= lim * 8

\* The comparator of line 185: negative when a goes first.
Compare_byStars(a, b) == b.stars - a.stars
Compare(a, b) == IF b.score - a.score # 0 THEN b.score - a.score ELSE b.stars - a.stars

\* Array.prototype.sort is stable: c goes before the first entry that must follow it.
InsertSorted(sorted, c) ==
  LET after == { i \in DOMAIN sorted : Compare(sorted[i], c) > 0 }
      pos == IF after = {} THEN Len(sorted) + 1
             ELSE CHOOSE i \in after : \A j \in after : i <= j
  IN  SubSeq(sorted, 1, pos - 1) \o <<c>> \o SubSeq(sorted, pos, Len(sorted))

RECURSIVE SortCandidates(_, _)
SortCandidates(cands, i) ==
  IF i = 0 THEN <<>> ELSE InsertSorted(SortCandidates(cands, i - 1), cands[i])

\* Array.from(candidates.entries()).sort(...).slice(0, limit * 12) (lines 185-189)
Prioritize(cands, lim) ==
  LET sorted == SortCandidates(cands, Len(cands))
  IN  SubSeq(sorted, 1, IF Len(sorted) < lim * 12 THEN Len(sorted) ELSE lim * 12)

\* if (verified.length >= limit) break (line 194)
VerifiedEnough_off(vs, lim) == Len(vs) > lim
VerifiedEnough(vs, lim) == Len(vs) >= lim

\* if (shouldCreatePr) (line 202)
Accept(d) ==
  shouldCreateDiscoveryPr(d.detectionSummary, d.aiTools, d.contributorSignals,
                          d.commitMessageSignals)

\* The entry pushed to verified (lines 204-215).
VerifiedEntry(cand, d) ==
  [full_name |-> cand.key,
   description |-> cand.description,
   stars |-> cand.stars,
   aiTools |-> d.aiTools,
   emojis |-> d.emojis,
   packageManager |-> d.packageManager,
   commitMessageSignals |-> d.commitMessageSignals,
   commitSizeSignals |-> d.commitSizeSignals,
   contributorSignals |-> d.contributorSignals,
   detectionSummary |-> d.detectionSummary]

\* What detect(fullName) may resolve with: the signals of a pass and their summary.
Detection(tools, cms, css, contrib) ==
  [aiTools |-> tools, emojis |-> 0, packageManager |-> Null,
   commitMessageSignals |-> cms, commitSizeSignals |-> css, contributorSignals |-> contrib,
   detectionSummary |-> calculateDetectionSummary(tools, cms, css, contrib)]

Ev(name, via) == [name |-> name, detected_via |-> via, evidence_url |-> "u"]

Detections ==
  { \* a config file, a commit mention and two AI mentions: 8 points
    Detection(<<Ev("cursor", "file"), Ev("claude", "commits")>>,
              [ZeroMessages EXCEPT !.aiMentionCount = 2], ZeroSizes, NoBot),
    \* three commit mentions in one commit, dashes and a large commit: 8 points
    Detection(<<Ev("cursor", "commits"), Ev("claude", "commits"), Ev("vibe", "commits")>>,
              [ZeroMessages EXCEPT !.emDashCount = 1, !.aiMentionCount = 1],
              [ZeroSizes EXCEPT !.largeCommitCount = 1], NoBot),
    \* a bot contributor and a config file: 7 points
    Detection(<<Ev("claude", "file")>>, ZeroMessages, ZeroSizes,
              [hasClaudeBotContributor |-> TRUE, matchedBots |-> <<"claude[bot]">>]),
    \* nothing found
    Detection(<<>>, ZeroMessages, ZeroSizes, NoBot) }

\* Search hits: full_name, description, stargazers_count.
Item(name, desc, stars) == [full_name |-> name, description |-> desc, stars |-> stars]

\* Pages a search may resolve with.
Pages ==
  { <<>>,
    << Item(<<"a", "/", "x">>, NoText, Some(30)) >>,
    << Item(<<"A", "/", "x">>, Some("d1"), Some(80)), Item(<<"a", "/", "x">>, Some("d2"), Null) >>,
    << Item(<<"b", "/", "y">>, Some("d1"), Some(0)), Item(<<"B", "/", "Y">>, NoText, Some(100)) >>,
    << Item(<<"c", "/", "z">>, NoText, Some(10)), Item(<<"d", "/", "w">>, Some("d2"), Some(60)) >>,
    << Item(<<"d", "/", "w">>, NoText, Null), Item(<<"a", "/", "x">>, Some("d1"), Some(30)),
       Item(<<"a", "/", "x">>, Some("d1"), Some(30)) >>,
    << Item(<<"e", "/", "v">>, Some("d1"), Some(100)) >> }

\* A page of nine repositories the run has not seen, as a commit search returns.
LargePage ==
  << Item(<<"h", "/", "1">>, NoText, Some(0)),   Item(<<"h", "/", "2">>, Some("d1"), Some(30)),
     Item(<<"h", "/", "3">>, NoText, Some(60)),  Item(<<"h", "/", "4">>, NoText, Some(100)),
     Item(<<"h", "/", "5">>, Some("d2"), Some(10)), Item(<<"h", "/", "6">>, NoText, Some(80)),
     Item(<<"h", "/", "7">>, NoText, Null),      Item(<<"h", "/", "8">>, NoText, Some(30)),
     Item(<<"h", "/", "9">>, NoText, Some(60)) >>

\* Pages of a run in which the pool grows past the cap and past the ranking cut.
WidePages ==
  { <<>>,
    << Item(<<"A", "/", "x">>, Some("d1"), Some(80)), Item(<<"a", "/", "x">>, Some("d2"), Null) >>,
    << Item(<<"b", "/", "y">>, Some("d1"), Some(0)), Item(<<"B", "/", "Y">>, NoText, Some(100)) >>,
    \* repositories of the second page with fewer stars and other descriptions
    << Item(<<"A", "/", "x">>, NoText, Some(10)), Item(<<"a", "/", "x">>, Some("d3"), Some(5)) >>,
    LargePage }

\* Bound: the limit argument of such a run ranges over 0..WideLimit.
WideLimit == 1

\* The queries the search API answers with hits: one of each type. Every other
\* query resolves with an empty page or fails.
HitQueries == { 1, 6, 8 }

\* How the latest iteration of a loop ended: "none" before the first one, "caught"
\* when it threw, "ok" when it did not, "resumed" when it did not and an earlier
\* iteration of the same loop had thrown.
NoSteps == [query |-> "none", detect |-> "none"]
Resolved(last) == IF last \in {"caught", "resumed"} THEN "resumed" ELSE "ok"

\* Catalogs and denylists on disk.
Catalogs == { {}, { <<"B", "/", "y">> } }
Denylists == { { <<"C", "/", "Z">> } }

DiscInit ==
  /\ dpc = "start" /\ limit \in 0..MaxLimit
  /\ catalog \in Catalogs /\ denylist \in Denylists
  /\ existingRepos = {} /\ deniedRepos = {}
  /\ qIdx = 1 /\ searchHits = {} /\ candidates = <<>> /\ prioritized = <<>> /\ vIdx = 1
  /\ verified = <<>> /\ detectLog = <<>> /\ returned = <<>> /\ lastStep = NoSteps
  /\ querySleep = 0

DiscInitWide ==
  /\ dpc = "start" /\ limit \in 0..WideLimit
  /\ catalog \in Catalogs /\ denylist \in Denylists
  /\ existingRepos = {} /\ deniedRepos = {}
  /\ qIdx = 1 /\ searchHits = {} /\ candidates = <<>> /\ prioritized = <<>> /\ vIdx = 1
  /\ verified = <<>> /\ detectLog = <<>> /\ returned = <<>> /\ lastStep = NoSteps
  /\ querySleep = 0

\* Lines 56-62: the catalog and the denylist are read and lower-cased.
DiscLoad ==
  /\ dpc = "start"
  /\ existingRepos' = LowerSet(catalog)
  /\ deniedRepos' = LowerSet(denylist)
  /\ dpc' = "query"
  /\ UNCHANGED <<limit, catalog, denylist, qIdx, searchHits, candidates, prioritized, vIdx, verified,
                 detectLog, returned>>
  /\ UNCHANGED <<lastStep, querySleep>>
  /\ DiscFrame

\* One iteration of the query loop whose search resolves with a page of
\* `pages`: merge the page, sleep.
QueryResolves(pages) ==
  /\ dpc = "query" /\ qIdx <= Len(queries) /\ ~PoolFull(candidates, limit)
  /\ \E page \in pages :
       /\ page # <<>> => qIdx \in HitQueries
       /\ page = LargePage => queries[qIdx].type = "commit"
       /\ candidates' = MergePage(candidates, page, 1, queries[qIdx], existingRepos,
                                  deniedRepos)
       /\ searchHits' = searchHits \cup { <<qIdx, page[i].full_name, i, page[i]>> : i \in DOMAIN page }
  /\ qIdx' = qIdx + 1
  /\ UNCHANGED <<dpc, limit, catalog, denylist, existingRepos, deniedRepos, prioritized,
                 vIdx, verified, detectLog, returned>>
  /\ lastStep' = [lastStep EXCEPT !.query = Resolved(@)]
  \* await new Promise((r) => setTimeout(r, 1500)) (line 179)
  /\ querySleep' = QueryDelayMs
  /\ DiscFrame

DiscQuery == QueryResolves(Pages)

\* The same iteration in a run whose commit search returns the large page.
DiscQueryWide == QueryResolves(WidePages)

\* The catch blocks (lines 180-182 and 221-223) only log: the for-of loop goes on
\* with the element after the one whose iteration threw.
AfterCatch_abort(i, n) == n + 1
AfterCatch(i, n) == i + 1

\* One iteration whose search rejects: caught at line 180, next query.
DiscQueryFail ==
  /\ dpc = "query" /\ qIdx <= Len(queries) /\ ~PoolFull(candidates, limit)
  /\ qIdx' = AfterCatch(qIdx, Len(queries))
  /\ UNCHANGED <<dpc, limit, catalog, denylist, existingRepos, deniedRepos, searchHits,
                 candidates, prioritized, vIdx, verified, detectLog, returned>>
  /\ lastStep' = [lastStep EXCEPT !.query = "caught"]
  \* the throw skipped line 179
  /\ querySleep' = 0
  /\ DiscFrame

\* The pool is full (break at line 126): rank the candidates.
DiscPoolFull ==
  /\ dpc = "query" /\ qIdx <= Len(queries) /\ PoolFull(candidates, limit)
  /\ prioritized' = Prioritize(candidates, limit)
  /\ dpc' = "verify"
  /\ UNCHANGED <<limit, catalog, denylist, existingRepos, deniedRepos, qIdx, searchHits, candidates,
                 vIdx, verified, detectLog, returned>>
  /\ UNCHANGED <<lastStep, querySleep>>
  /\ DiscFrame

\* Every query was issued: rank the candidates.
DiscQueriesDone ==
  /\ dpc = "query" /\ qIdx > Len(queries)
  /\ prioritized' = Prioritize(candidates, limit)
  /\ dpc' = "verify"
  /\ UNCHANGED <<limit, catalog, denylist, existingRepos, deniedRepos, qIdx, searchHits, candidates,
                 vIdx, verified, detectLog, returned>>
  /\ UNCHANGED <<lastStep, querySleep>>
  /\ DiscFrame

\* One iteration of the verification loop whose detect() resolves.
DiscVerify ==
  /\ dpc = "verify" /\ vIdx <= Len(prioritized) /\ ~VerifiedEnough(verified, limit)
  /\ \E d \in Detections :
       verified' = IF Accept(d) THEN Append(verified, VerifiedEntry(prioritized[vIdx], d))
                   ELSE verified
  /\ detectLog' = Append(detectLog, Len(verified))
  /\ vIdx' = vIdx + 1
  /\ UNCHANGED <<dpc, limit, catalog, denylist, existingRepos, deniedRepos, qIdx, searchHits,
                 candidates, prioritized, returned>>
  /\ lastStep' = [lastStep EXCEPT !.detect = Resolved(@)]
  /\ UNCHANGED querySleep
  /\ DiscFrame

\* One iteration whose detect() rejects: caught at line 221, next candidate.
DiscVerifyFail ==
  /\ dpc = "verify" /\ vIdx <= Len(prioritized) /\ ~VerifiedEnough(verified, limit)
  /\ detectLog' = Append(detectLog, Len(verified))
  /\ vIdx' = AfterCatch(vIdx, Len(prioritized))
  /\ UNCHANGED <<dpc, limit, catalog, denylist, existingRepos, deniedRepos, qIdx, searchHits,
                 candidates, prioritized, verified, returned>>
  /\ lastStep' = [lastStep EXCEPT !.detect = "caught"]
  /\ UNCHANGED querySleep
  /\ DiscFrame

\* The verification loop ends (limit reached or list exhausted): return verified.
DiscReturn ==
  /\ dpc = "verify"
  /\ vIdx > Len(prioritized) \/ VerifiedEnough(verified, limit)
  /\ returned' = verified
  /\ dpc' = "done"
  /\ UNCHANGED <<limit, catalog, denylist, existingRepos, deniedRepos, qIdx, searchHits, candidates,
                 prioritized, vIdx, verified, detectLog>>
  /\ UNCHANGED <<lastStep, querySleep>>
  /\ DiscFrame



-----------------------------------------------------------------------------
(* buildTargetUrl and extractVulnerabilityDetails, scripts/scan.ts:32-99   *)

\* Bounds: results per report and findings per report.
MaxResults == 2
MaxFindings == 2

\* A string that may be undefined; a string is a sequence of characters.
Undefined == [has |-> FALSE, v |-> <<>>]
Str(s) == [has |-> TRUE, v |-> s]
\* a ?? d, for a string default d
OrElse(a, d) == IF a.has THEN a.v ELSE d

\* target.replace(/^\.\/+/, ""): a leading "." followed by one or more "/" goes.
RECURSIVE DropSlashes(_)
DropSlashes(s) == IF s # <<>> /\ Head(s) = "/" THEN DropSlashes(Tail(s)) ELSE s
StripDotSlash_once(s) ==
  IF Len(s) >= 2 /\ s[1] = "." /\ s[2] = "/" THEN Tail(Tail(s)) ELSE s
StripDotSlash(s) ==
  IF Len(s) >= 2 /\ s[1] = "." /\ s[2] = "/" THEN DropSlashes(Tail(Tail(s))) ELSE s

\* Lines 32-41. The fixed pieces of the template literal are single elements.
buildTargetUrl(fullName, ref, target) ==
  IF ~target.has \/ target.v = <<>> THEN Undefined
  ELSE LET normalized == StripDotSlash(target.v)
       IN  IF normalized = <<>> \/ Includes(normalized, <<":", "/", "/">>) THEN Undefined
           ELSE Str(<<"https://github.com/">> \o fullName \o <<"/blob/">> \o ref
                    \o <<"/">> \o normalized)

\* VulnDetailSchema.parse (schemas.ts:50-60): a z.object keeps the keys of its
\* shape and strips every other key of the input.
VulnDetailSchemaParse(o) ==
  [pkg |-> o.pkg, version |-> o.version, cve |-> o.cve, severity |-> o.severity,
   title |-> o.title, fixedVersion |-> o.fixedVersion, type |-> o.type,
   target |-> o.target, targetUrl |-> o.targetUrl]

\* Lines 54-65: the detail of vulnerability v of result r.
VulnDetail(v, r, fullName, ref) ==
  VulnDetailSchemaParse(
    [pkg |-> OrElse(v.PkgName, <<"u", "n", "k", "n", "o", "w", "n">>),
     version |-> OrElse(v.InstalledVersion, <<>>),
     cve |-> OrElse(v.VulnerabilityID, <<>>),
     severity |-> OrElse(v.Severity, <<"U", "N", "K", "N", "O", "W", "N">>),
     title |-> OrElse(v.Title, <<>>),
     fixedVersion |-> v.FixedVersion,
     type |-> "vuln",
     target |-> OrElse(r.Target, <<>>),
     targetUrl |-> buildTargetUrl(fullName, ref, r.Target),
     scannedRef |-> ref])

\* Lines 76-87: the detail of secret s of result r.
SecretDetail(s, r, fullName, ref) ==
  LET secretTarget == IF s.Target.has THEN s.Target ELSE r.Target
  IN  VulnDetailSchemaParse(
        [pkg |-> <<"r", "e", "p", "o">>,
         version |-> <<>>,
         cve |-> OrElse(s.RuleID, <<"s", "e", "c", "r", "e", "t">>),
         severity |-> OrElse(s.Severity, <<"C", "R", "I", "T", "I", "C", "A", "L">>),
         title |-> OrElse(s.Title, <<"S", "e", "c", "r", "e", "t", " ", "F", "o", "u", "n", "d">>),
         fixedVersion |-> Undefined,
         type |-> "secret",
         target |-> OrElse(secretTarget, <<>>),
         targetUrl |-> buildTargetUrl(fullName, ref, secretTarget),
         scannedRef |-> ref])

\* The dedup keys (lines 67 and 89) and the summary lines (lines 71 and 93).
VulnKey(d) == <<"v", "u", "l", "n", ":">> \o d.pkg \o <<"@">> \o d.version \o <<":">> \o d.cve
SecretKey(d) == <<"s", "e", "c", "r", "e", "t", ":">> \o d.cve \o <<":">> \o d.title
VulnLine(d) ==
  IF d.cve # <<>> THEN d.pkg \o <<"@">> \o d.version \o <<" ", "(">> \o d.cve \o <<")">>
  ELSE d.pkg \o <<"@">> \o d.version
SecretLine(d) == <<"S", "e", "c", "r", "e", "t", ":", " ">> \o d.title

\* if (seen.has(key)) continue (lines 68 and 90)
Seen_never(seen, key) == FALSE
Seen(seen, key) == key \in seen

\* Lines 68-72 and 90-94 on the accumulator (seen, summary, details).
Emit(acc, key, line, detail) ==
  IF Seen(acc.seen, key) THEN acc
  ELSE [seen |-> acc.seen \cup {key}, summary |-> Append(acc.summary, line),
        details |-> Append(acc.details, detail)]

\* for (const v of r.Vulnerabilities ?? []) (lines 53-73)
RECURSIVE VulnLoop(_, _, _, _, _)
VulnLoop(acc, r, i, fullName, ref) ==
  IF i > Len(r.Vulnerabilities) THEN acc
  ELSE LET d == VulnDetail(r.Vulnerabilities[i], r, fullName, ref)
       IN  VulnLoop(Emit(acc, VulnKey(d), VulnLine(d), d), r, i + 1, fullName, ref)

\* for (const s of r.Secrets ?? []) (lines 75-95)
RECURSIVE SecretLoop(_, _, _, _, _)
SecretLoop(acc, r, i, fullName, ref) ==
  IF i > Len(r.Secrets) THEN acc
  ELSE LET d == SecretDetail(r.Secrets[i], r, fullName, ref)
       IN  SecretLoop(Emit(acc, SecretKey(d), SecretLine(d), d), r, i + 1, fullName, ref)

\* for (const r of report.Results ?? []) (lines 52-96)
RECURSIVE ResultLoop(_, _, _, _, _)
ResultLoop(acc, rs, i, fullName, ref) ==
  IF i > Len(rs) THEN acc
  ELSE ResultLoop(SecretLoop(VulnLoop(acc, rs[i], 1, fullName, ref), rs[i], 1, fullName, ref),
                  rs, i + 1, fullName, ref)

\* Characters in increasing UTF-16 code unit order.
CodeOrder ==
  <<" ", "(", ")", "-", ".", "/", "0", "1", "2", "3", "4", "5", "6", "7", "8", "9", ":", "@">>
  \o UpperChars \o <<"_">> \o LowerChars
CodeUnit(c) == CHOOSE i \in DOMAIN CodeOrder : CodeOrder[i] = c

\* a < b as Array.prototype.sort() compares strings without a comparator.
StrLess(a, b) ==
  \E k \in 1..Len(b) :
    /\ k - 1 <= Len(a)
    /\ \A j \in 1..(k - 1) : a[j] = b[j]
    /\ k = Len(a) + 1 \/ CodeUnit(a[k]) < CodeUnit(b[k])

\* summary.sort() (line 98), a stable sort.
RECURSIVE SortStrings(_, _)
SortStrings_asis(xs, n) == SubSeq(xs, 1, n)
SortStrings(xs, n) ==
  IF n = 0 THEN <<>>
  ELSE LET sorted == SortStrings(xs, n - 1)
           after == { i \in DOMAIN sorted : StrLess(xs[n], sorted[i]) }
           pos == IF after = {} THEN Len(sorted) + 1
                  ELSE CHOOSE i \in after : \A j \in after : i <= j
       IN  SubSeq(sorted, 1, pos - 1) \o <<xs[n]>> \o SubSeq(sorted, pos, Len(sorted))

\* Lines 43-99.
extractVulnerabilityDetails(rs, fullName, ref) ==
  LET acc == ResultLoop([seen |-> {}, summary |-> <<>>, details |-> <<>>], rs, 1, fullName, ref)
  IN  [summary |-> SortStrings(acc.summary, Len(acc.summary)), details |-> acc.details]

\* Inputs. The repository scanned and the refs it is scanned at.
RepoName == <<"a", "/", "r">>
ScanRefs == { <<"m">>, <<"9", "f">> }

\* Findings of a Trivy report; a field Trivy left out is Undefined.
Vuln(pkg, version, id, title, fixed) ==
  [PkgName |-> pkg, InstalledVersion |-> version, VulnerabilityID |-> id,
   Severity |-> Str(<<"H", "I", "G", "H">>), Title |-> title, FixedVersion |-> fixed]
Secret(rule, severity, title, target) ==
  [RuleID |-> rule, Severity |-> severity, Title |-> title, Target |-> target]

Vulns ==
  { Vuln(Str(<<"l", "o">>), Str(<<"4">>), Str(<<"C", "-", "1">>), Str(<<"t">>), Str(<<"5">>)),
    \* the same package, version and id under another title
    Vuln(Str(<<"l", "o">>), Str(<<"4">>), Str(<<"C", "-", "1">>), Str(<<"u">>), Undefined),
    \* no id
    Vuln(Str(<<"a", "x">>), Str(<<"1">>), Undefined, Undefined, Undefined),
    \* no package name and no version
    Vuln(Undefined, Undefined, Str(<<"C", "-", "1">>), Str(<<"t">>), Undefined) }

Secrets ==
  { Secret(Str(<<"a", "w", "s">>), Str(<<"H", "I", "G", "H">>), Str(<<"K", "e", "y">>), Undefined),
    \* the same rule and title, found in a file of its own
    Secret(Str(<<"a", "w", "s">>), Undefined, Str(<<"K", "e", "y">>), Str(<<"k">>)),
    \* nothing but the finding
    Secret(Undefined, Undefined, Undefined, Undefined) }

\* Targets of the results of a report.
ResultTargets == { Undefined, Str(<<"p", ".", "l">>), Str(<<".", "/", ".", "e">>) }

\* Targets buildTargetUrl is called with directly.
UrlTargets ==
  { Undefined, Str(<<>>), Str(<<"a">>), Str(<<".", "/">>), Str(<<".", "/", "/">>),
    Str(<<".", "/", "a">>), Str(<<".", "/", "/", "a">>), Str(<<".", "/", ".", "/", "a">>),
    Str(<<"/", "a">>), Str(<<".", "a">>), Str(<<".">>), Str(<<"a", "/", ".", "/", "b">>),
    Str(<<"a", ":", "/", "/", "b">>), Str(<<".", "/", "a", ":", "/", "/">>),
    Str(<<":", "/", "/">>), Str(<<"a", ":", "/", "b">>) }

NoUrlCall == [fullName |-> <<>>, ref |-> <<>>, target |-> Undefined]

\* Findings in the report so far.
RECURSIVE FindingCount(_, _)
FindingCount(rs, i) ==
  IF i = 0 THEN 0
  ELSE FindingCount(rs, i - 1) + Len(rs[i].Vulnerabilities) + Len(rs[i].Secrets)

ScanInit ==
  /\ report = <<>> /\ scanRef \in ScanRefs
  /\ scanOut = [summary |-> <<>>, details |-> <<>>]
  /\ urlIn = NoUrlCall /\ urlOut = Undefined

\* extractVulnerabilityDetails applied to the report rs; the earlier direct call of
\* buildTargetUrl is over.
Rescan(rs) ==
  /\ report' = rs
  /\ scanOut' = extractVulnerabilityDetails(rs, RepoName, scanRef)
  /\ urlIn' = NoUrlCall /\ urlOut' = Undefined
  /\ UNCHANGED scanRef

\* The report has one more result.
ScanAddResult ==
  /\ Len(report) < MaxResults
  /\ \E t \in ResultTargets :
       Rescan(Append(report, [Target |-> t, Vulnerabilities |-> <<>>, Secrets |-> <<>>]))
  /\ ScanFrame

\* The last result has one more vulnerability.
ScanAddVuln ==
  /\ report # <<>> /\ FindingCount(report, Len(report)) < MaxFindings
  /\ \E v \in Vulns :
       Rescan([report EXCEPT ![Len(report)].Vulnerabilities = Append(@, v)])
  /\ ScanFrame

\* The last result has one more secret.
ScanAddSecret ==
  /\ report # <<>> /\ FindingCount(report, Len(report)) < MaxFindings
  /\ \E x \in Secrets :
       Rescan([report EXCEPT ![Len(report)].Secrets = Append(@, x)])
  /\ ScanFrame

\* buildTargetUrl called on its own, as scan_test.ts:4-16 calls it.
ScanBuildUrl ==
  /\ report = <<>>
  /\ \E ref \in ScanRefs, t \in UrlTargets :
       /\ urlIn' = [fullName |-> RepoName, ref |-> ref, target |-> t]
       /\ urlOut' = buildTargetUrl(RepoName, ref, t)
  /\ UNCHANGED <<report, scanRef, scanOut>>
  /\ ScanFrame


-----------------------------------------------------------------------------
(* The sharded catalog, scripts/lib/shard.ts and ProjectSchema             *)

\* A boolean that may be undefined.
NoFlag == [has |-> FALSE, v |-> FALSE]
Flag(b) == [has |-> TRUE, v |-> b]

\* ProjectSchema.parse (schemas.ts:67-142): a z.object keeps the keys of its shape,
\* fills in the defaults of stars and is_archived, and strips every other key:
\* hasSAST, hasLinting, sastEvidenceUrl and lintEvidenceUrl are not in the shape.
ProjectSchemaParse(p) ==
  [full_name |-> p.full_name,
   url |-> p.url,
   stars |-> IF p.stars.has THEN p.stars ELSE Some(0),
   is_archived |-> IF p.is_archived.has THEN p.is_archived ELSE Flag(FALSE),
   hasSAST |-> NoFlag,
   hasLinting |-> NoFlag,
   sastEvidenceUrl |-> Undefined,
   lintEvidenceUrl |-> Undefined,
   lastUpdated |-> p.lastUpdated]

\* SHARD_KEYS (line 6)
SHARD_KEYS == LowerChars \o <<"0", "1", "2", "3", "4", "5", "6", "7", "8", "9">>

\* fullName.split("/")[0]
Owner(fullName) ==
  LET slashes == { i \in DOMAIN fullName : fullName[i] = "/" }
  IN  IF slashes = {} THEN fullName
      ELSE SubSeq(fullName, 1, (CHOOSE i \in slashes : \A j \in slashes : i <= j) - 1)

getShardKey_ascased(fullName) ==
  LET owner == Owner(fullName)
  IN  IF owner # <<>> /\ \E i \in DOMAIN SHARD_KEYS : SHARD_KEYS[i] = owner[1]
      THEN owner[1] ELSE "other"

\* getShardKey (lines 8-13)
getShardKey(fullName) ==
  LET owner == ToLowerCase(Owner(fullName))
  IN  IF owner # <<>> /\ \E i \in DOMAIN SHARD_KEYS : SHARD_KEYS[i] = owner[1]
      THEN owner[1] ELSE "other"

\* a.localeCompare(b) < 0 for names over [A-Za-z0-9_.-/]: punctuation, digits and
\* letters in that order, letters without regard to case; between names equal up
\* to case, the lower-case letter goes first at the first difference.
CollationOrder ==
  <<"_", "-", ".", "/", "0", "1", "2", "3", "4", "5", "6", "7", "8", "9">> \o LowerChars
Primary(c) == CHOOSE i \in DOMAIN CollationOrder : CollationOrder[i] = LowerChar(c)
LocaleLess(a, b) ==
  \/ \E k \in 1..Len(b) :
       /\ k - 1 <= Len(a)
       /\ \A j \in 1..(k - 1) : Primary(a[j]) = Primary(b[j])
       /\ k = Len(a) + 1 \/ Primary(a[k]) < Primary(b[k])
  \/ /\ ToLowerCase(a) = ToLowerCase(b)
     /\ \E k \in DOMAIN a :
          /\ \A j \in 1..(k - 1) : a[j] = b[j]
          /\ a[k] # b[k] /\ LowerChar(a[k]) = a[k]

\* projects.sort((a, b) => a.full_name.localeCompare(b.full_name)), a stable sort.
RECURSIVE SortProjects(_, _)
SortProjects(ps, n) ==
  IF n = 0 THEN <<>>
  ELSE LET sorted == SortProjects(ps, n - 1)
           after == { i \in DOMAIN sorted : LocaleLess(ps[n].full_name, sorted[i].full_name) }
           pos == IF after = {} THEN Len(sorted) + 1
                  ELSE CHOOSE i \in after : \A j \in after : i <= j
       IN  SubSeq(sorted, 1, pos - 1) \o <<ps[n]>> \o SubSeq(sorted, pos, Len(sorted))

\* Deno.readTextFile + ProjectsDataSchema.parse, with the catch of lines 91-93: a
\* missing shard reads as no projects.
ReadShard(files, key) == IF key \in DOMAIN files THEN files[key] ELSE <<>>
\* The files as a read sees them: a file whose read or validation throws is
\* caught like a missing one (lines 35-37, 91-93 and 115-117).
Readable(files, bad) == [k \in DOMAIN files \ bad |-> files[k]]
\* Deno.writeTextFile(path, JSON.stringify(data, null, 2))
WriteShard(files, key, projects) ==
  [k \in DOMAIN files \cup {key} |-> IF k = key THEN projects ELSE files[k]]

\* (p) => p.full_name === name
SameName(a, b) == a = b

\* Lines 94-100: replace the record of the same name or push, then sort.
UpsertInto(projects, parsed) ==
  LET found == { i \in DOMAIN projects : SameName(projects[i].full_name, parsed.full_name) }
      idx == IF found = {} THEN 0 ELSE CHOOSE i \in found : \A j \in found : i <= j
      next == IF idx > 0 THEN [projects EXCEPT ![idx] = parsed] ELSE Append(projects, parsed)
  IN  SortProjects(next, Len(next))

\* upsertProject (lines 82-102): the files after the call.
upsertProject(files, bad, project) ==
  LET parsed == ProjectSchemaParse(project)
      key == getShardKey(parsed.full_name)
  IN  WriteShard(files, key, UpsertInto(ReadShard(Readable(files, bad), key), parsed))

\* data.projects.filter((p) => p.full_name !== fullName) (line 111)
RECURSIVE FilterOut(_, _, _)
FilterOut(projects, fullName, n) ==
  IF n = 0 THEN <<>>
  ELSE IF SameName(projects[n].full_name, fullName) THEN FilterOut(projects, fullName, n - 1)
  ELSE Append(FilterOut(projects, fullName, n - 1), projects[n])

\* removeProject (lines 104-118): the files after the call and the value returned.
removeProject(files, bad, fullName) ==
  LET key == getShardKey(fullName)
      before == ReadShard(Readable(files, bad), key)
      kept == FilterOut(before, fullName, Len(before))
  IN  IF key \notin DOMAIN files \ bad \/ Len(kept) = Len(before)
      THEN [files |-> files, ret |-> FALSE]
      ELSE [files |-> WriteShard(files, key, kept), ret |-> TRUE]

\* readAllShards (lines 27-43): the shards in the order of SHARD_KEYS and "other",
\* concatenated and sorted.
RECURSIVE ConcatShards(_, _)
ConcatShards(files, n) ==
  IF n = 0 THEN <<>>
  ELSE ConcatShards(files, n - 1)
       \o ReadShard(files, IF n <= Len(SHARD_KEYS) THEN SHARD_KEYS[n] ELSE "other")
readAllShards(files) ==
  LET all == ConcatShards(files, Len(SHARD_KEYS) + 1)
  IN  SortProjects(all, Len(all))

\* Project records handed to upsertProject.
Project(name, stars, sast, updated) ==
  [full_name |-> name, url |-> "u", stars |-> stars, is_archived |-> Flag(FALSE),
   hasSAST |-> sast, hasLinting |-> sast,
   sastEvidenceUrl |-> IF sast.has THEN Str(<<"s">>) ELSE Undefined,
   lintEvidenceUrl |-> IF sast.has THEN Str(<<"l">>) ELSE Undefined,
   lastUpdated |-> updated]

Projects ==
  { Project(<<"a", "c", "/", "r">>, Some(5), NoFlag, Str(<<"1">>)),
    \* the same repository, refreshed
    Project(<<"a", "c", "/", "r">>, Some(9), NoFlag, Str(<<"2">>)),
    \* the same name in another letter case
    Project(<<"A", "c", "/", "R">>, Some(5), NoFlag, Str(<<"1">>)),
    \* a record of updateProject with SAST and lint evidence
    Project(<<"a", "b", "/", "q">>, Some(7), Flag(TRUE), Str(<<"1">>)),
    \* an owner that goes to the "other" shard
    Project(<<"_", "o", "/", "x">>, Some(0), NoFlag, Str(<<"1">>)) }

\* Names removeProject is called with.
RemoveNames ==
  { <<"a", "c", "/", "r">>, <<"A", "C", "/", "r">>, <<"a", "b", "/", "q">>, <<"_", "o", "/", "x">>,
    <<"z", "/", "z">> }

NoFiles == [k \in {} |-> <<>>]
NoOp == [op |-> "none", name |-> <<>>, ret |-> FALSE]

StoreInit == shards = NoFiles /\ unreadable = {} /\ lastOp = NoOp

\* await upsertProject(project)
StoreUpsert ==
  /\ \E project \in Projects :
       /\ shards' = upsertProject(shards, unreadable, project)
       \* the file just written is read back without error
       /\ unreadable' = unreadable \ { getShardKey(project.full_name) }
       /\ lastOp' = [op |-> "upsert", name |-> project.full_name, ret |-> TRUE,
                     project |-> project]
  /\ StoreFrame

\* await removeProject(fullName)
StoreRemove ==
  /\ \E fullName \in RemoveNames :
       /\ shards' = removeProject(shards, unreadable, fullName).files
       /\ lastOp' = [op |-> "remove", name |-> fullName,
                     ret |-> removeProject(shards, unreadable, fullName).ret]
  /\ UNCHANGED unreadable
  /\ StoreFrame

\* Names getShardKeyFor is called with: the ones of shard_test.ts:4-20, a name
\* without "/", the empty name, and owners that begin with an upper-case letter,
\* a digit or a punctuation mark.
KeyNames ==
  { <<"a", "c", "/", "r">>, <<"O", "t", "/", "r">>, <<"1", "2", "/", "r">>, <<"z", "/", "t">>,
    <<"-", "/", "r">>, <<"_", "o", "/", "r">>, <<".", "h", "/", "r">>, <<"/", "r">>,
    <<>>, <<"Z", "9">>, <<"9", "Z", "/", "a", "/", "b">>, <<"/">>, <<"-", "a", "/", "b">>,
    <<"/", "a", "/", "b">> }

\* getShardKeyFor(fullName) (lines 120-122)
StoreShardKey ==
  /\ \E fullName \in KeyNames :
       lastOp' = [op |-> "key", name |-> fullName, ret |-> TRUE, key |-> getShardKey(fullName)]
  /\ UNCHANGED <<shards, unreadable>>
  /\ StoreFrame

\* Between two calls a shard file stops being readable: its JSON was edited by
\* hand into something ProjectsDataSchema rejects, or readTextFile fails on it.
\* The records stay in the file; the next read of it lands in a catch (lines
\* 35-37, 91-93, 115-117).
StoreDamage ==
  /\ \E key \in DOMAIN shards \ unreadable : unreadable' = unreadable \cup {key}
  /\ lastOp' = [op |-> "damage", name |-> <<>>, ret |-> FALSE]
  /\ UNCHANGED shards
  /\ StoreFrame

-----------------------------------------------------------------------------
(* updateAll, scripts/update-all.ts:173-195                                *)

MAX_CONCURRENCY == 5

\* Bound: the catalog holds 0..MaxProjects projects when updateAll starts.
MaxProjects == 6

\* Array(Math.min(MAX_CONCURRENCY, queue.length)) (line 181)
WorkerCount(n) == IF n < MAX_CONCURRENCY THEN n ELSE MAX_CONCURRENCY

\* The repositories of the catalog, in the order they were added. The second
\* was added under another letter case of the first (add.ts:44 compares exactly).
CatalogNames ==
  << <<"a", "/", "r">>, <<"A", "/", "r">>, <<"b", "/", "s">>, <<"c", "/", "s">>,
     <<"a", "/", "t">>, <<"b", "/", "t">>, <<"c", "/", "u">>, <<"a", "/", "u">> >>

\* A catalog of n projects, as n upsertProject calls leave it.
RECURSIVE CatalogOf(_)
CatalogOf(n) ==
  IF n = 0 THEN NoFiles
  ELSE upsertProject(CatalogOf(n - 1), {}, Project(CatalogNames[n], Some(n), NoFlag, Str(<<"1">>)))

\* Owners whose repositories cannot be refreshed when updateAll runs.
FailingOwners == { <<"c">> }

\* What updateProject(p) resolves with (lines 16-168), as far as the pool is
\* concerned: a refreshed record, or p itself when the refresh failed (line 166).
Refreshed(p) ==
  IF Owner(p.full_name) \in FailingOwners THEN p
  ELSE [p EXCEPT !.lastUpdated = Str(<<"2">>)]

NoWorkers == [w \in {} |-> 0]
Active(w) == workers[w].pc \in {"update", "write"}

PoolIdle ==
  /\ upc = "start" /\ queue = <<>> /\ workers = NoWorkers
  /\ takenBy = [n \in {} |-> <<>>] /\ finished = {}

PoolInit ==
  /\ upc = "start" /\ queue = <<>> /\ workers = NoWorkers
  /\ takenBy = [n \in {} |-> <<>>] /\ finished = {}
  /\ \E n \in 0..MaxProjects : shards = CatalogOf(n)
  /\ unreadable = {} /\ lastOp = NoOp

\* Lines 174-190 up to the first await of every worker: the catalog is read, the
\* workers are created one after the other and each shifts a project and calls
\* updateProject.
PoolStart ==
  /\ upc = "start"
  /\ LET projects == readAllShards(shards)
         k == WorkerCount(Len(projects))
     IN  /\ workers' = [w \in 1..k |-> [pc |-> "update", p |-> projects[w], data |-> <<>>]]
         /\ queue' = SubSeq(projects, k + 1, Len(projects))
         /\ takenBy' = [n \in { projects[i].full_name : i \in DOMAIN projects } |->
                          IF \E w \in 1..k : projects[w].full_name = n
                          THEN <<CHOOSE w \in 1..k : projects[w].full_name = n>>
                          ELSE <<>>]
  /\ upc' = "running"
  /\ UNCHANGED <<shards, finished>>
  /\ PoolFrame

\* updateProject resolves for worker w, upsertProject is called and its
\* readTextFile resolves (shard.ts:83-100): the data to write is computed from
\* the shard as it is now.
PoolUpdateRead(w) ==
  /\ upc = "running" /\ workers[w].pc = "update"
  /\ LET parsed == ProjectSchemaParse(Refreshed(workers[w].p))
     IN  workers' = [workers EXCEPT ![w] =
           [pc |-> "write", p |-> parsed,
            data |-> UpsertInto(ReadShard(shards, getShardKey(parsed.full_name)), parsed)]]
  /\ UNCHANGED <<upc, queue, takenBy, finished, shards>>
  /\ PoolFrame

\* writeTextFile resolves for worker w (shard.ts:101); back in the loop of lines
\* 184-189 the worker shifts the next project, or ends when the queue is empty.
PoolWrite(w) ==
  /\ upc = "running" /\ workers[w].pc = "write"
  /\ shards' = WriteShard(shards, getShardKey(workers[w].p.full_name), workers[w].data)
  /\ finished' = finished \cup { workers[w].p.full_name }
  /\ IF queue # <<>>
     THEN /\ workers' = [workers EXCEPT ![w] = [pc |-> "update", p |-> Head(queue), data |-> <<>>]]
          /\ queue' = Tail(queue)
          /\ takenBy' = [takenBy EXCEPT ![Head(queue).full_name] = Append(@, w)]
     ELSE /\ workers' = [workers EXCEPT ![w] = [pc |-> "done", p |-> @.p, data |-> <<>>]]
          /\ UNCHANGED <<queue, takenBy>>
  /\ UNCHANGED upc
  /\ PoolFrame

\* await Promise.all(workers) resolves; syncData (lines 192-194).
PoolSync ==
  /\ upc = "running" /\ \A w \in DOMAIN workers : workers[w].pc = "done"
  /\ upc' = "synced"
  /\ UNCHANGED <<queue, workers, takenBy, finished, shards>>
  /\ PoolFrame

-----------------------------------------------------------------------------
(* detect, scripts/detect.ts:451-494, and the collectors it awaits         *)

\* No call was made yet.
NotCalled == [done |-> FALSE]

\* github.hasPath (github.ts:164-173): false when the request fails.
hasPath(ans, path) == ~ans.pathsFail /\ path \in ans.paths

\* The file loop of hasCursorOrClaude (lines 79-89) from entry i on.
RECURSIVE FileLoop(_, _, _, _)
FileLoop(acc, ans, branch, i) ==
  IF i > Len(fileSignals) THEN acc
  ELSE FileLoop(FileStep(acc, fileSignals[i], hasPath(ans, fileSignals[i].path),
                         ProbeRepo, branch),
                ans, branch, i + 1)

\* hasCursorOrClaude (lines 54-131): what it returns for the answers ans. The
\* payload of getRecentCommits is assigned to commits before it is iterated
\* (line 93), so a payload that is no array is returned as it came.
hasCursorOrClaude(ans) ==
  LET files == FileLoop([tools |-> <<>>, seen |-> {}], ans, DefaultBranchOf(ans.repo), 1) IN
    IF ans.commits.kind = "rejected" THEN [aiTools |-> files.tools, commits |-> NoCommits]
    ELSE IF ans.commits.kind = "notArray"
    THEN [aiTools |-> files.tools, commits |-> [isArray |-> FALSE, items |-> <<>>]]
    ELSE [aiTools |-> CommitLoop(files, ans.commits.items, 1).tools,
          commits |-> [isArray |-> TRUE, items |-> ans.commits.items]]

\* Math.round(a / n) for a >= 0, n > 0
RoundDiv(a, n) == (2 * a + n) \div (2 * n)

\* The characters U+2014 and U+2013, each one element of a message.
EmDash == "U+2014"
EnDash == "U+2013"

\* (msg.match(/ch/g) || []).length
CountChar(msg, ch) == Cardinality({ i \in DOMAIN msg : msg[i] = ch })

aiMentions ==
  { <<"c", "u", "r", "s", "o", "r">>, <<"c", "l", "a", "u", "d", "e">>,
    <<"c", "l", "a", "u", "d", "e", " ", "c", "o", "d", "e">>,
    <<"c", "o", "p", "i", "l", "o", "t">>, <<"g", "e", "m", "i", "n", "i">>,
    <<"w", "i", "n", "d", "s", "u", "r", "f">>, <<"a", "i", "d", "e", "r">>,
    <<"v", "i", "b", "e", " ", "c", "o", "d", "e", "d">>,
    <<"v", "i", "b", "e", "-", "c", "o", "d", "e", "d">> }

\* The loop of analyzeCommitMessages (lines 152-159) from commit i on.
RECURSIVE MessageLoop(_, _, _)
MessageLoop(acc, cs, i) ==
  IF i > Len(cs) THEN acc
  ELSE LET msg == MessageOf(cs[i])
           lower == ToLowerCase(msg)
       IN  MessageLoop(
             [totalLength |-> acc.totalLength + Len(msg),
              emDashCount |-> acc.emDashCount + CountChar(msg, EmDash),
              enDashCount |-> acc.enDashCount + CountChar(msg, EnDash),
              aiMentionCount |-> acc.aiMentionCount
                                   + (IF \E term \in aiMentions : Includes(lower, term)
                                      THEN 1 ELSE 0)],
             cs, i + 1)

\* analyzeCommitMessages (lines 133-169) of an array of commits.
analyzeCommitMessages(cs) ==
  LET acc == MessageLoop([totalLength |-> 0, emDashCount |-> 0, enDashCount |-> 0,
                          aiMentionCount |-> 0], cs, 1)
      sampleSize == Len(cs)
  IN  [sampleSize |-> sampleSize,
       avgMessageLength |-> IF sampleSize > 0 THEN RoundDiv(acc.totalLength, sampleSize) ELSE 0,
       emDashCount |-> acc.emDashCount, enDashCount |-> acc.enDashCount,
       aiMentionCount |-> acc.aiMentionCount]

\* A commit object without a sha: typeof c.sha is not "string".
NoSha == <<>>
ShalessCommit(i) == [hasMessage |-> FALSE, message |-> <<>>, html_url |-> <<"commit", i>>, sha |-> NoSha]
HasSha(c) == c.sha # NoSha

\* commits.map((c) => c.sha).filter(typeof sha === "string").slice(0, 8)
\* (lines 175-178), as the commits the shas belong to.
SampleOf(cs) ==
  LET withSha == SelectSeq(cs, HasSha)
  IN  SubSeq(withSha, 1, IF Len(withSha) < 8 THEN Len(withSha) ELSE 8)

\* Number(commit?.stats?.total ?? 0), then 0 unless it is finite (lines 188-189):
\* ans.stats[sha] is Number(...) of the commit fetched, NaN for a total that is no
\* number; a sha outside ans.stats is a getCommit that rejected (line 191).
TotalOf(sha, ans) ==
  IF sha \in DOMAIN ans.stats /\ ~ans.stats[sha].nan THEN ans.stats[sha].v ELSE 0

\* The totals of analyzeCommitSizes (lines 184-193), one per sampled commit.
TotalsOf(sample, ans) == [i \in DOMAIN sample |-> TotalOf(sample[i].sha, ans)]

\* (n) => n >= 500 (line 201)
IsLarge_over(n) == n > 500
IsLarge(n) == n >= 500

\* [...totals].sort((a, b) => a - b)
RECURSIVE SortNumbers(_)
SortNumbers(xs) ==
  IF xs = <<>> THEN <<>>
  ELSE LET k == CHOOSE i \in DOMAIN xs : \A j \in DOMAIN xs : xs[i] <= xs[j]
       IN  <<xs[k]>> \o SortNumbers(SubSeq(xs, 1, k - 1) \o SubSeq(xs, k + 1, Len(xs)))

RECURSIVE SumNumbers(_)
SumNumbers(xs) == IF xs = <<>> THEN 0 ELSE Head(xs) + SumNumbers(Tail(xs))

\* analyzeCommitSizes (lines 171-206)
analyzeCommitSizes(cs, ans) ==
  LET totals == TotalsOf(SampleOf(cs), ans)
      n == Len(totals)
      sorted == SortNumbers(totals)
  IN  IF n = 0 THEN ZeroSizes
      ELSE [sampledCommits |-> n,
            avgChanges |-> RoundDiv(SumNumbers(totals), n),
            medianChanges |-> IF n % 2 = 1 THEN sorted[(n \div 2) + 1]
                              ELSE RoundDiv(sorted[n \div 2] + sorted[(n \div 2) + 1], 2),
            largeCommitCount |-> Len(SelectSeq(totals, IsLarge))]

\* The entries of `mapping` in the order Object.entries gives them (lines 404-427).
mapping ==
  << <<"pnpm-lock.yaml", "pnpm">>, <<"bun.lockb", "bun">>, <<"bun.lock", "bun">>,
     <<"yarn.lock", "yarn">>, <<"package-lock.json", "npm">>, <<"npm-shrinkwrap.json", "npm">>,
     <<"package.json", "npm">>, <<"go.mod", "go">>, <<"Cargo.toml", "cargo">>,
     <<"requirements.txt", "pip">>, <<"pyproject.toml", "poetry">>, <<"Pipfile", "pipenv">>,
     <<"Gemfile", "bundler">>, <<"composer.json", "composer">>, <<"mix.exs", "mix">>,
     <<"deno.json", "deno">>, <<"deno.jsonc", "deno">>, <<"pom.xml", "maven">>,
     <<"build.gradle", "gradle">>, <<"build.gradle.kts", "gradle">>, <<"uv.lock", "uv">>,
     <<"poetry.lock", "poetry">> >>

\* The loop of detectPackageManager (lines 434-442) from entry i on.
RECURSIVE PackageLoop(_, _, _)
PackageLoop(ans, branch, i) ==
  IF i > Len(mapping) THEN Undefined
  ELSE IF hasPath(ans, mapping[i][1])
  THEN [has |-> TRUE,
        v |-> [name |-> mapping[i][2], detected_via |-> mapping[i][1],
               evidence_url |-> <<"https://github.com", ProbeRepo, "blob", branch,
                                  mapping[i][1]>>]]
  ELSE PackageLoop(ans, branch, i + 1)

\* detectPackageManager (lines 403-444); null is Undefined.
detectPackageManager(ans) == PackageLoop(ans, DefaultBranchOf(ans.repo), 1)

\* /claude(\-code)?\[bot\]/i.test(login)
IsClaudeBot(login) ==
  \/ Includes(ToLowerCase(login), <<"c", "l", "a", "u", "d", "e", "[", "b", "o", "t", "]">>)
  \/ Includes(ToLowerCase(login),
              <<"c", "l", "a", "u", "d", "e", "-", "c", "o", "d", "e", "[", "b", "o", "t", "]">>)

\* detectContributorSignals (lines 208-228)
detectContributorSignals(ans) ==
  IF ans.contributors.kind = "rejected" THEN NoBot
  ELSE LET logins == IF ans.contributors.kind = "array" THEN ans.contributors.logins ELSE <<>>
           matchedBots == SelectSeq(SelectSeq(logins, LAMBDA l : l # <<>>), IsClaudeBot)
       IN  [hasClaudeBotContributor |-> Len(matchedBots) > 0, matchedBots |-> matchedBots]

\* fetchEmojiCount and detectSAST never reject: each answers "nothing found" when
\* its requests fail.
EmojisOf(ans) == IF ans.issuesFail THEN 0 ELSE ans.emojis
HasSastOf(ans) ==
  \/ hasPath(ans, ".semgrep.yml")
  \/ ~ans.workflowsFail /\ "codeql.yml" \in ans.workflows

\* What detect() resolves with (detect.ts:465-493): the summary is computed from
\* the evidence and the signals of the same pass.
DetectionOf(tools, emojis, pm, cms, css, contrib, sast) ==
  [ok |-> TRUE, aiTools |-> tools, emojis |-> emojis, packageManager |-> pm,
   commitMessageSignals |-> cms, commitSizeSignals |-> css, contributorSignals |-> contrib,
   detectionSummary |-> calculateDetectionSummary(tools, cms, css, contrib),
   hasSAST |-> sast]
DetectionFailed ==
  [DetectionOf(<<>>, 0, Undefined, ZeroMessages, ZeroSizes, NoBot, FALSE) EXCEPT !.ok = FALSE]

Threw == [kind |-> "threw"]

\* detect (lines 451-494). analyzeCommitMessages iterates commits with for-of
\* outside any try: a value that is not iterable makes it throw a TypeError,
\* which detect does not catch.
detect(ans) ==
  LET aiResult == hasCursorOrClaude(ans) IN
    IF ~aiResult.commits.isArray THEN Threw
    ELSE LET cms == analyzeCommitMessages(aiResult.commits.items)
             css == analyzeCommitSizes(aiResult.commits.items, ans)
             contrib == detectContributorSignals(ans)
         IN  [kind |-> "result",
              d |-> DetectionOf(aiResult.aiTools, EmojisOf(ans), detectPackageManager(ans),
                                cms, css, contrib, HasSastOf(ans))]

\* What GitHub answers during one call. paths: the paths that exist; stats: the
\* stats.total of the commits whose getCommit succeeds.
DashMessage == <<"a", EmDash, "b", EnDash, "c", EnDash>>
CommitAnswers ==
  { [kind |-> "rejected", items |-> <<>>], [kind |-> "notArray", items |-> <<>>],
    [kind |-> "array", items |-> <<>>],
    [kind |-> "array", items |-> <<Commit(<<"C", "u", "r", "s", "o", "r">>, 1)>>],
    [kind |-> "array",
     items |-> <<Commit(DashMessage, 1), BareCommit(2),
                 Commit(<<"b", "y", " ", "C", "L", "A", "U", "D", "E">>, 3)>>] }
StatAnswers ==
  { [sha \in {} |-> Num(0)], [sha \in { <<"sha", 1>> } |-> Num(600)],
    [sha \in { <<"sha", 1>>, <<"sha", 3>> } |-> IF sha = <<"sha", 1>> THEN Num(7) ELSE Num(500)] }
ContributorAnswers ==
  { [kind |-> "rejected", logins |-> <<>>], [kind |-> "notArray", logins |-> <<>>],
    [kind |-> "array", logins |-> << <<"b", "o", "b">>, <<>> >>],
    [kind |-> "array",
     logins |-> << <<"C", "l", "a", "u", "d", "e", "[", "b", "o", "t", "]">> >>] }
DetectAnswers ==
  [ repo : { [ok |-> FALSE, default_branch |-> ""], [ok |-> TRUE, default_branch |-> "develop"] },
    pathsFail : BOOLEAN,
    paths : { {}, { ".cursorrules", "package.json" }, { "CLAUDE.md", ".semgrep.yml" } },
    commits : CommitAnswers, stats : StatAnswers, contributors : ContributorAnswers,
    issuesFail : BOOLEAN, emojis : {0, 3},
    workflowsFail : BOOLEAN, workflows : { {}, { "codeql.yml" } } ]

DetectIdle == detIn = NotCalled /\ detOut = NotCalled

\* A call about to be made.
DetectInit ==
  /\ detIn \in { a \in DetectAnswers :
                   /\ a.pathsFail => a.paths = {}
                   /\ a.issuesFail => a.emojis = 0
                   /\ a.workflowsFail => a.workflows = {}
                   /\ a.commits.kind # "array" => a.stats = [sha \in {} |-> Num(0)] }
  /\ detOut = NotCalled

\* const d = await detect(fullName)
DetectCall ==
  /\ detOut = NotCalled /\ detIn # NotCalled
  /\ detOut' = detect(detIn)
  /\ UNCHANGED detIn
  /\ DetectFrame

\* Bound: the commits argument holds 0..MaxSized commits.
MaxSized == 10

\* Commit lists: every commit with a sha, every third one without, or none with.
SizedCommits(n, shape) ==
  [i \in 1..n |->
     IF shape = "none" \/ (shape = "thirds" /\ i % 3 = 0) THEN ShalessCommit(i)
     ELSE BareCommit(i)]

\* What getCommit answers for the commits 1..n: totals that grow by 100 from 100
\* on; every request rejected; two totals around the mean 499.5 and the threshold,
\* the others 500; or totals that are no numbers at the even positions and a
\* rejected request at every fifth.
SizedStats(n, profile) ==
  CASE profile = "growing" -> [sha \in { <<"sha", i>> : i \in 1..n } |-> Num(100 * sha[2])]
    [] profile = "rejected" -> [sha \in {} |-> Num(0)]
    [] profile = "threshold" ->
         [sha \in { <<"sha", i>> : i \in 1..n } |->
            IF sha[2] = 1 THEN Num(499) ELSE IF sha[2] = 2 THEN Num(501) ELSE Num(500)]
    [] profile = "garbled" ->
         [sha \in { <<"sha", i>> : i \in 1..n } \ { <<"sha", i>> : i \in {5, 10} } |->
            IF sha[2] % 2 = 0 THEN NaN ELSE Num(7 * sha[2])]

SizeIdle == szIn = NotCalled /\ szOut = NotCalled

\* A call about to be made.
SizeInit ==
  /\ \E n \in 0..MaxSized, shape \in { "all", "thirds", "none" },
        profile \in { "growing", "rejected", "threshold", "garbled" } :
       szIn = [done |-> FALSE, commits |-> SizedCommits(n, shape),
               stats |-> SizedStats(n, profile)]
  /\ szOut = NotCalled

\* await analyzeCommitSizes(fullName, commits): one getCommit per sampled sha
\* (line 187), then the aggregates.
SizeCall ==
  /\ szIn # NotCalled /\ ~szIn.done
  /\ szIn' = [szIn EXCEPT !.done = TRUE]
  /\ szOut' = [requests |-> [i \in DOMAIN SampleOf(szIn.commits) |-> SampleOf(szIn.commits)[i].sha],
               ret |-> analyzeCommitSizes(szIn.commits, szIn)]
  /\ SizeFrame

-----------------------------------------------------------------------------
(* scan, scripts/scan.ts:106-139                                           *)

\* What the scanner wrote to its standard output, as JSON.parse sees it: text that
\* is not JSON, the JSON value null, a JSON object without Results, or a report.
Garbled == [kind |-> "garbled", results |-> <<>>]
JsonNull == [kind |-> "null", results |-> <<>>]
JsonObject == [kind |-> "object", results |-> <<>>]
TrivyReport(rs) == [kind |-> "report", results |-> rs]

\* JSON.parse(out) at line 133 throws.
ParseThrows(out) == out.kind = "garbled"

\* Exit codes scan() goes on with (line 127).
CodeAccepted(code) == code \in {0, 1}

\* report.Results ?? [] (line 52): reading a property of null throws a TypeError,
\* an object without Results has no results.
scan(run) ==
  IF ~CodeAccepted(run.code) THEN Threw
  ELSE IF ParseThrows(run.out) THEN [kind |-> "ok", ret |-> [summary |-> <<>>, details |-> <<>>]]
  ELSE IF run.out.kind = "null" THEN Threw
  ELSE [kind |-> "ok", ret |-> extractVulnerabilityDetails(run.out.results, RepoName, run.ref)]

\* Exit codes of the scanner: clean, findings, a failure, command not found, killed.
ExitCodes == {0, 1, 2, 127, 137}

\* Reports of one result.
TrivyReports ==
  { <<>> } \cup
  { <<[Target |-> t, Vulnerabilities |-> <<v>>, Secrets |-> <<>>]>> : t \in ResultTargets, v \in Vulns } \cup
  { <<[Target |-> t, Vulnerabilities |-> <<>>, Secrets |-> <<x>>]>> : t \in ResultTargets, x \in Secrets }

TrivyOutputs == { Garbled, JsonNull, JsonObject } \cup { TrivyReport(rs) : rs \in TrivyReports }

TrivyIdle == trivyIn = NotCalled /\ trivyOut = NotCalled

\* A run of the scanner that has ended; scanRef is what lines 108-114 computed.
TrivyInit ==
  /\ \E code \in ExitCodes, out \in TrivyOutputs, ref \in ScanRefs :
       trivyIn = [done |-> FALSE, code |-> code, out |-> out, ref |-> ref]
  /\ trivyOut = NotCalled

\* scan() from line 127 on.
TrivyScan ==
  /\ trivyIn # NotCalled /\ ~trivyIn.done
  /\ trivyIn' = [trivyIn EXCEPT !.done = TRUE]
  /\ trivyOut' = scan(trivyIn)
  /\ TrivyFrame

-----------------------------------------------------------------------------
(* fetchEmojiCount, scripts/detect.ts:289-309                              *)

\* for (let i = 0; i < 5; i++) and per_page=100
EmojiMaxPages == 5
EmojiPerPage == 100

\* issue.reactions?.total_count ?? 0; an issue is the count it carries, if any.
ReactionsOf(issue) == IF issue.has THEN issue.v ELSE 0

\* for (const issue of issues) total += ... (lines 299-301): what the issues
\* lo..hi add to total, summed by halves.
RECURSIVE AddedBy(_, _, _)
AddedBy(issues, lo, hi) ==
  IF lo > hi THEN 0
  ELSE IF lo = hi THEN ReactionsOf(issues[lo])
  ELSE AddedBy(issues, lo, (lo + hi) \div 2) + AddedBy(issues, ((lo + hi) \div 2) + 1, hi)
AddReactions(total, issues) == total + AddedBy(issues, 1, Len(issues))

\* if (issues.length < 100) break
IsShortPage_never(issues) == FALSE
IsShortPage(issues) == Len(issues) < EmojiPerPage

\* What a page request may answer: an error (fetchWithRetry or res.json() rejects)
\* or an array of up to 100 issues.
FullPage(first, others) ==
  [kind |-> "array", items |-> [i \in 1..EmojiPerPage |-> IF i = 1 THEN first ELSE others]]
PageAnswers ==
  { [kind |-> "rejected", items |-> <<>>],
    [kind |-> "array", items |-> <<>>],
    [kind |-> "array", items |-> <<Some(2)>>],
    [kind |-> "array", items |-> <<Null, Some(3), Some(1)>>],
    [kind |-> "array", items |-> SubSeq(FullPage(Some(4), Some(1)).items, 1, EmojiPerPage - 1)],
    FullPage(Null, Null), FullPage(Some(5), Some(1)) }

EmojiIdle ==
  /\ epc = "idle" /\ ePage = 1 /\ eIter = 0 /\ eTotal = 0 /\ eLog = <<>> /\ eOut = Null

\* let total = 0; let page = 1; i = 0
EmojiInit ==
  /\ epc = "loop" /\ ePage = 1 /\ eIter = 0 /\ eTotal = 0 /\ eLog = <<>> /\ eOut = Null

\* One iteration of the loop (lines 292-306): the request for `page` is answered;
\* when the loop ends with this iteration, total is returned.
EmojiPage ==
  /\ epc = "loop" /\ eIter < EmojiMaxPages
  /\ \E ans \in PageAnswers :
       LET counted == ans.kind = "array" /\ Len(ans.items) # 0
           total == IF counted THEN AddReactions(eTotal, ans.items) ELSE eTotal
           goesOn == counted /\ ~IsShortPage(ans.items)
           ends == ~goesOn \/ eIter + 1 >= EmojiMaxPages
       IN  /\ eLog' = Append(eLog, [page |-> ePage, answer |-> ans])
           /\ eTotal' = total
           /\ ePage' = IF goesOn THEN ePage + 1 ELSE ePage
           /\ eIter' = IF goesOn THEN eIter + 1 ELSE eIter
           /\ epc' = IF ends THEN "done" ELSE "loop"
           /\ eOut' = IF ends THEN Some(total) ELSE Null
  /\ EmojiFrame

\* Files of the JavaScript, Python and Go ecosystems a repository may hold.
PackageFiles ==
  { "pnpm-lock.yaml", "package.json", "requirements.txt", "pyproject.toml", "uv.lock",
    "poetry.lock", "go.mod" }

PmIdle == pmIn = NotCalled /\ pmOut = Undefined

\* A call about to be made.
PmInit ==
  /\ \E files \in SUBSET PackageFiles, info \in RepoInfos :
       pmIn = [done |-> FALSE, pathsFail |-> FALSE, paths |-> files, repo |-> info]
  /\ pmOut = Undefined

\* const packageManager = await detectPackageManager(fullName)
PmCall ==
  /\ pmIn # NotCalled /\ ~pmIn.done
  /\ pmIn' = [pmIn EXCEPT !.done = TRUE]
  /\ pmOut' = detectPackageManager(pmIn)
  /\ PmFrame

-----------------------------------------------------------------------------
(* updateProject, scripts/update-all.ts:16-168                             *)

\* An optional signal bundle; null and undefined are not told apart (the code
\* tests them with ?? only).
NoMessages == [has |-> FALSE, v |-> ZeroMessages]
NoSizes == [has |-> FALSE, v |-> ZeroSizes]
NoContributorSignals == [has |-> FALSE, v |-> NoBot]
NoSummary == [has |-> FALSE, v |-> calculateDetectionSummary(<<>>, ZeroMessages, ZeroSizes, NoBot)]
Given(x) == [has |-> TRUE, v |-> x]

\* hasSAST || undefined (line 156)
OrUndefined(b) == IF b THEN Flag(TRUE) ELSE NoFlag

\* Lines 92-119: the detection fields of the refreshed record.
WithDetection(p, d) ==
  IF ~d.ok THEN p
  ELSE [p EXCEPT
          !.aiTools = IF Len(d.aiTools) > 0 THEN Str(d.aiTools) ELSE @,
          !.emojis = IF d.emojis > 0 THEN Some(d.emojis) ELSE @,
          !.packageManager = IF d.packageManager.has THEN d.packageManager ELSE @,
          !.commitMessageSignals = Given(d.commitMessageSignals),
          !.commitSizeSignals = Given(d.commitSizeSignals),
          !.contributorSignals = Given(d.contributorSignals),
          !.detectionSummary = Given(d.detectionSummary),
          !.hasSAST = OrUndefined(d.hasSAST)]

\* Lines 121-130: the scan fields of the refreshed record.
WithScan(p, sc) ==
  IF ~sc.ok THEN p
  ELSE [p EXCEPT !.vulnerableDependencies = Str(sc.summary), !.vulnerabilities = Str(sc.details)]

\* Lines 132-163: the metadata fields of the refreshed record.
WithMetadata(p, f) ==
  [p EXCEPT
     !.stars = Some(f.stars),
     !.topics = IF f.topics.has /\ Len(f.topics.v) > 0 THEN f.topics ELSE @,
     !.commits = IF f.commits.has THEN f.commits ELSE @,
     !.contributors = IF f.contributors.has THEN f.contributors ELSE @,
     !.languages = IF Len(f.languages) > 0 THEN Str(f.languages) ELSE @,
     !.lastUpdated = Str(<<"2">>)]

\* updateProject with a catch that stamps the record it returns.
updateProject_stamped(p, f) ==
  IF ~f.repoOk THEN [p EXCEPT !.lastUpdated = Str(<<"2">>)]
  ELSE WithMetadata(WithScan(WithDetection(p, f.detect), f.scan), f)

\* updateProject(p) when the answers are f; p itself when the metadata could not
\* be fetched or validated (lines 165-167).
updateProject(p, f) ==
  IF ~f.repoOk THEN p
  ELSE WithMetadata(WithScan(WithDetection(p, f.detect), f.scan), f)

\* Records the catalog holds when updateAll runs. A record read from the catalog
\* has no emojis and no hasSAST (ProjectSchema has no such keys), and its summary
\* was computed by detect() from the evidence and signals stored with it.
CursorFile == [name |-> "cursor", detected_via |-> "file", evidence_url |-> "u"]
ClaudeCommit == [name |-> "claude", detected_via |-> "commits", evidence_url |-> "u"]
TwoMentions == [ZeroMessages EXCEPT !.sampleSize = 2, !.aiMentionCount = 2]
StoredRecord(tools, cms, meta) ==
  [full_name |-> <<"a", "/", "r">>, stars |-> Some(5),
   topics |-> meta, languages |-> meta, commits |-> IF meta.has THEN Some(10) ELSE Null,
   contributors |-> IF meta.has THEN Some(3) ELSE Null,
   aiTools |-> Str(tools), emojis |-> Null, packageManager |-> meta,
   commitMessageSignals |-> Given(cms), commitSizeSignals |-> Given(ZeroSizes),
   contributorSignals |-> Given(NoBot),
   detectionSummary |-> Given(calculateDetectionSummary(tools, cms, ZeroSizes, NoBot)),
   hasSAST |-> NoFlag,
   vulnerableDependencies |-> IF meta.has THEN Str(<< <<"l", "@", "4">> >>) ELSE Str(<<>>),
   vulnerabilities |-> IF meta.has THEN Str(<< <<"d", "1">> >>) ELSE Str(<<>>),
   lastUpdated |-> Str(<<"1">>)]
\* A record written by add before any detection.
BareRecord ==
  [StoredRecord(<<>>, ZeroMessages, Undefined) EXCEPT
     !.aiTools = Undefined, !.commitMessageSignals = NoMessages, !.commitSizeSignals = NoSizes,
     !.contributorSignals = NoContributorSignals, !.detectionSummary = NoSummary,
     !.vulnerableDependencies = Undefined, !.vulnerabilities = Undefined]
StoredRecords ==
  { StoredRecord(<<CursorFile>>, TwoMentions, Str(<<"o", "l", "d">>)),
    StoredRecord(<<>>, ZeroMessages, Undefined),
    BareRecord }

\* What detect() and scan() resolve with during the call.
DetectResults ==
  { DetectionOf(t, e, pm, cms, ZeroSizes, NoBot, sast) :
      t \in { <<>>, <<ClaudeCommit>> }, e \in {0, 7},
      pm \in { Undefined, Str(<<"n", "p", "m">>) },
      cms \in { ZeroMessages, TwoMentions }, sast \in BOOLEAN }
    \cup { DetectionFailed }
ScanResults ==
  { [ok |-> FALSE, summary |-> <<>>, details |-> <<>>],
    [ok |-> TRUE, summary |-> <<>>, details |-> <<>>],
    [ok |-> TRUE, summary |-> << <<"a", "@", "1">> >>, details |-> << <<"d", "2">> >>] }
\* ProjectSchema.parse of a record of updateProject (shard.ts:83): emojis and
\* hasSAST are not keys of the schema.
StoredForm(p) == [p EXCEPT !.emojis = Null, !.hasSAST = NoFlag]

\* Another record of the same shard file.
Neighbour ==
  [StoredRecord(<<>>, ZeroMessages, Undefined) EXCEPT !.full_name = <<"a", "/", "t">>]

Answers ==
  [ repoOk : BOOLEAN, stars : {6},
    topics : { Undefined, Str(<<>>), Str(<<"n", "e", "w">>) },
    commits : { Null, Some(11) }, contributors : { Null, Some(4) },
    languages : { <<>>, <<"t", "s">> },
    detect : DetectResults, scan : ScanResults ]

RefreshIdle ==
  refPrev = NotCalled /\ refFresh = NotCalled /\ refOut = NotCalled /\ refShard = <<>>

\* A call about to be made.
RefreshInit ==
  /\ refPrev \in StoredRecords
  /\ refFresh \in { f \in Answers : ~f.repoOk => f = CHOOSE g \in Answers : ~g.repoOk }
  /\ refOut = NotCalled
  \* p was read from its shard file, where it is alone or next to another record
  /\ refShard \in { <<refPrev>>, UpsertInto(<<Neighbour>>, refPrev) }

\* const updated = await updateProject(p)
RefreshCall ==
  /\ refOut = NotCalled /\ refPrev # NotCalled
  /\ refOut' = [done |-> TRUE, p |-> updateProject(refPrev, refFresh), written |-> FALSE]
  /\ UNCHANGED <<refPrev, refFresh, refShard>>
  /\ RefreshFrame

\* await upsertProject(updated) (update-all.ts:185), by a worker that is alone.
RefreshWrite ==
  /\ refOut.done /\ ~refOut.written
  /\ refShard' = UpsertInto(refShard, StoredForm(refOut.p))
  /\ refOut' = [refOut EXCEPT !.written = TRUE]
  /\ UNCHANGED <<refPrev, refFresh>>
  /\ RefreshFrame

-----------------------------------------------------------------------------
(* parse, scripts/detect.ts:41-47, and GITHUB_RE, scripts/lib/shard.ts:132 *)

\* [a-zA-Z0-9], [a-zA-Z0-9-] and [a-zA-Z0-9_.-]
AlphaNum(c) ==
  \/ \E i \in DOMAIN SHARD_KEYS : SHARD_KEYS[i] = c
  \/ \E i \in DOMAIN UpperChars : UpperChars[i] = c
OwnerChar(c) == AlphaNum(c) \/ c = "-"
RepoChar(c) == AlphaNum(c) \/ c \in {"_", ".", "-"}

\* White space String.prototype.trim removes, and the line terminators "." does
\* not match.
WhiteSpace == {" ", "\t", "\n", "\r"}
LineTerminators == {"\n", "\r"}

StartsWith(s, t) == Len(s) >= Len(t) /\ SubSeq(s, 1, Len(t)) = t
Drop(s, n) == SubSeq(s, n + 1, Len(s))

\* input.trim()
Trim(s) ==
  LET inked == { i \in DOMAIN s : s[i] \notin WhiteSpace }
  IN  IF inked = {} THEN <<>>
      ELSE SubSeq(s, CHOOSE i \in inked : \A j \in inked : i <= j,
                     CHOOSE i \in inked : \A j \in inked : j <= i)

HttpProto == <<"h", "t", "t", "p", ":", "/", "/">>
HttpsProto == <<"h", "t", "t", "p", "s", ":", "/", "/">>
WwwDot == <<"w", "w", "w", ".">>
GithubHost == <<"g", "i", "t", "h", "u", "b", ".", "c", "o", "m", "/">>
DotGit == <<".", "g", "i", "t">>

\* (?:(?:https?:\/\/)?(?:www\.)?github\.com\/)
HostPrefixes ==
  { proto \o www \o GithubHost : proto \in {<<>>, HttpProto, HttpsProto}, www \in {<<>>, WwwDot} }

\* [a-zA-Z0-9](?:[a-zA-Z0-9-]*[a-zA-Z0-9])?
IsOwner(o) ==
  /\ o # <<>> /\ AlphaNum(o[1]) /\ AlphaNum(o[Len(o)])
  /\ \A i \in DOMAIN o : OwnerChar(o[i])

\* (?:\.git)?(?:\/)?(?:\?.*)?$
TailMatches(t) ==
  \E git \in {<<>>, DotGit}, slash \in {<<>>, <<"/">>} :
    /\ StartsWith(t, git \o slash)
    /\ LET q == Drop(t, Len(git \o slash))
       IN  q = <<>> \/ (q[1] = "?" /\ \A i \in 2..Len(q) : q[i] \notin LineTerminators)

\* ([a-zA-Z0-9_.-]+?): the lengths the group can take, the lazy quantifier taking
\* the smallest, a greedy one the largest.
RepoLengths(t) ==
  { k \in 1..Len(t) : (\A i \in 1..k : RepoChar(t[i])) /\ TailMatches(Drop(t, k)) }
RepoLength_greedy(t) == CHOOSE k \in RepoLengths(t) : \A j \in RepoLengths(t) : j <= k
RepoLength(t) == CHOOSE k \in RepoLengths(t) : \A j \in RepoLengths(t) : k <= j

NoMatch == [ok |-> FALSE, owner |-> <<>>, repo |-> <<>>]

\* The owner and repository groups matched at the start of r, to the end of r.
MatchGroups(r) ==
  LET slashes == { i \in DOMAIN r : r[i] = "/" } IN
    IF slashes = {} THEN NoMatch
    ELSE LET at == CHOOSE i \in slashes : \A j \in slashes : i <= j
             owner == SubSeq(r, 1, at - 1)
             rest == Drop(r, at)
         IN  IF IsOwner(owner) /\ RepoLengths(rest) # {}
             THEN [ok |-> TRUE, owner |-> owner, repo |-> SubSeq(rest, 1, RepoLength(rest))]
             ELSE NoMatch

\* s.match(GITHUB_RE): the optional host group is tried first, then left out.
MatchGithubRe(s) ==
  IF \E p \in HostPrefixes : StartsWith(s, p) /\ MatchGroups(Drop(s, Len(p))).ok
  THEN MatchGroups(Drop(s, Len(CHOOSE p \in HostPrefixes :
                                  StartsWith(s, p) /\ MatchGroups(Drop(s, Len(p))).ok)))
  ELSE MatchGroups(s)

\* parse (detect.ts:41-47); null is Undefined.
parse(input) ==
  LET s == Trim(input) IN
    IF s = <<>> THEN Undefined
    ELSE LET m == MatchGithubRe(s)
         IN  IF ~m.ok THEN Undefined ELSE Str(m.owner \o <<"/">> \o m.repo)

\* Inputs, by the parts they are made of: white space around, a protocol, "www.",
\* a host, the owner segment, the repository segment (hasRepo: whether there is
\* one, with the "/" before it), ".git", a trailing slash and a query string.
GitlabHost == <<"g", "i", "t", "l", "a", "b", ".", "c", "o", "m", "/">>
InputParts ==
  [ pad : {<<>>, <<" ", "\t">>},
    proto : {<<>>, HttpProto, HttpsProto},
    www : {<<>>, WwwDot},
    host : {<<>>, GithubHost, GitlabHost},
    owner : {<<>>, <<"o", "-", "1">>, <<"A", "b">>},
    hasRepo : BOOLEAN,
    repo : {<<"r", "_", ".", "x">>, <<"A", "-", "9">>},
    git : {<<>>, DotGit},
    slash : {<<>>, <<"/">>},
    query : {<<>>, <<"?", "t", "=", "/", "a">>} ]

\* The string the parts make.
InputText(in) ==
  in.pad \o in.proto \o in.www \o in.host \o in.owner
    \o (IF in.hasRepo THEN <<"/">> \o in.repo ELSE <<>>)
    \o in.git \o in.slash \o in.query \o in.pad

NoParseCall == [called |-> FALSE]

ParseIdle == parseIn = NoParseCall /\ parseOut = Undefined

\* The input of a call that is about to be made.
ParseInit ==
  /\ \E in \in InputParts :
       /\ ~in.hasRepo => in.repo = <<"r", "_", ".", "x">>
       /\ parseIn = [called |-> FALSE, parts |-> in]
  /\ parseOut = Undefined

\* parse(input)
ParseCall ==
  /\ parseIn # NoParseCall /\ ~parseIn.called
  /\ parseIn' = [parseIn EXCEPT !.called = TRUE]
  /\ parseOut' = parse(InputText(parseIn.parts))
  /\ ParseFrame

-----------------------------------------------------------------------------
(* add, scripts/add.ts:34-231                                              *)

\* `https://github.com/${full}` (line 26)
UrlOf(full) == HttpsProto \o GithubHost \o full

\* projects.findIndex((x) => x.full_name === p.full_name) (line 44): 0 for -1.
FindIndex(projects, fullName) ==
  LET found == { i \in DOMAIN projects : projects[i].full_name = fullName }
  IN  IF found = {} THEN 0 ELSE CHOOSE i \in found : \A j \in found : i <= j

\* The record of lines 51-55: nothing but full_name, url and lastUpdated.
BareProject(fullName, at) ==
  ProjectSchemaParse([full_name |-> fullName, url |-> UrlOf(fullName), stars |-> Null,
                      is_archived |-> NoFlag, lastUpdated |-> at])

\* The record of lines 168-199, built from the repository metadata.
FetchedProject(fullName, repo, at) ==
  ProjectSchemaParse([full_name |-> fullName, url |-> UrlOf(fullName),
                      stars |-> Some(repo.stars), is_archived |-> Flag(repo.archived),
                      lastUpdated |-> at])

\* Lines 57-203: the try block replaces the bare record when getRepo and
\* GitHubRepoSchema.parse succeed; the catch of line 201 leaves it.
ProjectToStore(fullName, repo, at) ==
  IF repo.repoOk THEN FetchedProject(fullName, repo, at) ELSE BareProject(fullName, at)

\* existingIdx >= 0 && !force (line 45)
Refused(existingIdx, force) == existingIdx > 0 /\ ~force

\* add(input, force) called from another module (import.meta.main is false, lines
\* 213-228 are skipped) on a catalog that needs no migration: how the call ended,
\* the files after it, and whether the catalog was read, the network was used, and
\* upsertProject and syncData were called.
add(files, input, force, repo, at) ==
  LET p == parse(input) IN
    IF ~p.has
    THEN [kind |-> "threw", files |-> files, read |-> FALSE, network |-> FALSE,
          upserts |-> 0, syncs |-> 0]
    ELSE LET existingIdx == FindIndex(readAllShards(files), p.v) IN
           IF Refused(existingIdx, force)
           THEN [kind |-> "false", files |-> files, read |-> TRUE, network |-> FALSE,
                 upserts |-> 0, syncs |-> 0]
           ELSE [kind |-> "true",
                 files |-> upsertProject(files, {}, ProjectToStore(p.v, repo, at)),
                 read |-> TRUE, network |-> TRUE, upserts |-> 1, syncs |-> 1]

\* Calls of add in a run.
MaxAdds == 2

\* Inputs of add: a repository, the same in other letters, as a URL with white
\* space around, another repository, and two inputs parse rejects.
AddInputs ==
  { <<"a", "/", "r">>, <<"A", "/", "R">>,
    <<" ">> \o HttpsProto \o GithubHost \o <<"a", "/", "r">> \o DotGit \o <<" ">>,
    <<"b", "/", "q">>, <<"a", "r">>, <<" ">> }

\* What getRepo and GitHubRepoSchema.parse give: a failure, or the metadata.
RepoAnswers ==
  { [repoOk |-> FALSE, stars |-> 0, archived |-> FALSE],
    [repoOk |-> TRUE, stars |-> 0, archived |-> FALSE],
    [repoOk |-> TRUE, stars |-> 9, archived |-> TRUE] }

\* The time of the n-th call, new Date().toISOString().
NowAt(n) == Str(<<"t", n>>)

\* Catalogs add may find: empty, or with populated records written earlier.
Populated(fullName) ==
  FetchedProject(fullName, [repoOk |-> TRUE, stars |-> 5, archived |-> TRUE], NowAt(0))
AddCatalogs ==
  { NoFiles,
    upsertProject(NoFiles, {}, Populated(<<"a", "/", "r">>)),
    upsertProject(upsertProject(NoFiles, {}, Populated(<<"a", "/", "r">>)), {},
                  Populated(<<"b", "/", "q">>)) }

NoAdd == [done |-> FALSE, n |-> 0]

AddIdle == addFiles = NoFiles /\ addCall = NoAdd

AddInit == addFiles \in AddCatalogs /\ addCall = NoAdd

\* await add(input, force)
AddCall ==
  /\ addCall.n < MaxAdds
  /\ \E input \in AddInputs, force \in BOOLEAN, repo \in RepoAnswers :
       LET out == add(addFiles, input, force, repo, NowAt(addCall.n + 1)) IN
         /\ addFiles' = out.files
         /\ addCall' = [done |-> TRUE, n |-> addCall.n + 1, input |-> input, force |-> force,
                        repo |-> repo, before |-> addFiles, out |-> out]
  /\ AddFrame

-----------------------------------------------------------------------------
(* GitHubClient.hasPath and GitHubClient.getCount,                         *)
(* scripts/lib/github.ts:115-127 and 164-173                               *)

\* res.ok
ResOk(res) == res.status >= 200 /\ res.status <= 299

\* hasPath (lines 164-173): one fetch; true for status 200, false for any other
\* status and when the fetch rejects.
GitHubClient_hasPath(res) ==
  [fetches |-> 1,
   ret |-> IF res.rejects THEN [kind |-> "boolean", v |-> FALSE]
           ELSE [kind |-> "boolean", v |-> res.status = 200]]

\* getCount (lines 115-127): one fetch, outside any try; null when the response
\* is not ok; the page number of the rel="last" link when the Link header has
\* one; else the length of the body when it is an array, else null.
GitHubClient_getCount(res) ==
  [fetches |-> 1,
   ret |-> IF res.rejects THEN [kind |-> "threw"]
           ELSE IF ~ResOk(res) THEN [kind |-> "null"]
           ELSE IF res.link.has /\ res.link.last.has
           THEN [kind |-> "number", v |-> res.link.last.v]
           ELSE IF res.body.isArray THEN [kind |-> "number", v |-> res.body.length]
           ELSE [kind |-> "null"]]

\* The Link header: absent, without a rel="last" entry, or with one for page 7.
LinkHeaders ==
  { [has |-> FALSE, last |-> Null], [has |-> TRUE, last |-> Null],
    [has |-> TRUE, last |-> Some(7)] }
\* The JSON body: an array of 0 or 1 items, or an object.
JsonBodies ==
  { [isArray |-> TRUE, length |-> 0], [isArray |-> TRUE, length |-> 1],
    [isArray |-> FALSE, length |-> 0] }
GwStatuses == { 200, 204, 301, 403, 404, 429, 500 }
\* What the server answers to the request of the call; rejects: the fetch promise
\* rejects (network error).
GwResponses ==
  { [rejects |-> FALSE, status |-> st, link |-> l, body |-> b] :
      st \in GwStatuses, l \in LinkHeaders, b \in JsonBodies }
  \cup { [rejects |-> TRUE, status |-> 0, link |-> [has |-> FALSE, last |-> Null],
          body |-> [isArray |-> FALSE, length |-> 0]] }

GwIdle == gwIn = NotCalled /\ gwOut = NotCalled

\* A call about to be made.
GwInit ==
  /\ \E method \in { "hasPath", "getCount" }, res \in GwResponses :
       gwIn = [done |-> FALSE, method |-> method, res |-> res]
  /\ gwOut = NotCalled

\* await github.hasPath(fullName, path)
GwHasPath ==
  /\ gwIn # NotCalled /\ ~gwIn.done /\ gwIn.method = "hasPath"
  /\ gwIn' = [gwIn EXCEPT !.done = TRUE]
  /\ gwOut' = GitHubClient_hasPath(gwIn.res)
  /\ GwFrame

\* await github.getCount(url)
GwGetCount ==
  /\ gwIn # NotCalled /\ ~gwIn.done /\ gwIn.method = "getCount"
  /\ gwIn' = [gwIn EXCEPT !.done = TRUE]
  /\ gwOut' = GitHubClient_getCount(gwIn.res)
  /\ GwFrame

-----------------------------------------------------------------------------
(* Specifications: one per component.                                      *)

\* discover is not running.
DiscIdle ==
  /\ dpc = "start" /\ limit = 0 /\ catalog = {} /\ denylist = {}
  /\ existingRepos = {} /\ deniedRepos = {}
  /\ qIdx = 1 /\ searchHits = {} /\ candidates = <<>> /\ prioritized = <<>> /\ vIdx = 1
  /\ verified = <<>> /\ detectLog = <<>> /\ returned = <<>> /\ lastStep = NoSteps
  /\ querySleep = 0

\* No report is loaded.
ScanIdle ==
  /\ report = <<>> /\ scanRef = <<"m">>
  /\ scanOut = [summary |-> <<>>, details |-> <<>>]
  /\ urlIn = NoUrlCall /\ urlOut = Undefined

InitFetch == FetchInit /\ ScoreInit /\ ProbeInit /\ DiscIdle /\ ScanIdle /\ StoreInit /\ PoolIdle /\ ParseIdle /\ RefreshIdle /\ DetectIdle /\ EmojiIdle /\ PmIdle /\ GwIdle /\ SizeIdle /\ TrivyIdle /\ AddIdle
NextFetch ==
  \/ FetchCall \/ FetchRateLimited \/ FetchSleepDone \/ FetchNotOk \/ FetchOk
  \/ FetchRejects \/ FetchMaxRetries
SpecFetch == InitFetch /\ [][NextFetch]_vars

InitScore == FetchInit /\ ScoreInit /\ ProbeInit /\ DiscIdle /\ ScanIdle /\ StoreInit /\ PoolIdle /\ ParseIdle /\ RefreshIdle /\ DetectIdle /\ EmojiIdle /\ PmIdle /\ GwIdle /\ SizeIdle /\ TrivyIdle /\ AddIdle
NextScore ==
  \/ ScoreAddEvidence \/ ScoreAddBot \/ ScoreAddEmDash \/ ScoreAddEnDash
  \/ ScoreAddMention \/ ScoreAddLargeCommit \/ ScoreGateProbe
SpecScore == InitScore /\ [][NextScore]_vars

InitProbe == FetchInit /\ ScoreInit /\ ProbeInit /\ DiscIdle /\ ScanIdle /\ StoreInit /\ PoolIdle /\ ParseIdle /\ RefreshIdle /\ DetectIdle /\ EmojiIdle /\ PmIdle /\ GwIdle /\ SizeIdle /\ TrivyIdle /\ AddIdle
NextProbe ==
  \/ ProbeGetRepo \/ ProbeFile \/ ProbeFilesDone \/ ProbeCommits \/ ProbeCommitsFail
  \/ ProbeCommitsNotArray
SpecProbe == InitProbe /\ [][NextProbe]_vars

InitDiscover == FetchInit /\ ScoreInit /\ ProbeInit /\ DiscInit /\ ScanIdle /\ StoreInit /\ PoolIdle /\ ParseIdle /\ RefreshIdle /\ DetectIdle /\ EmojiIdle /\ PmIdle /\ GwIdle /\ SizeIdle /\ TrivyIdle /\ AddIdle
NextDiscover ==
  \/ DiscLoad \/ DiscQuery \/ DiscQueryFail \/ DiscPoolFull \/ DiscQueriesDone
  \/ DiscVerify \/ DiscVerifyFail \/ DiscReturn
SpecDiscover == InitDiscover /\ [][NextDiscover]_vars

InitDiscoverWide == FetchInit /\ ScoreInit /\ ProbeInit /\ DiscInitWide /\ ScanIdle /\ StoreInit /\ PoolIdle /\ ParseIdle /\ RefreshIdle /\ DetectIdle /\ EmojiIdle /\ PmIdle /\ GwIdle /\ SizeIdle /\ TrivyIdle /\ AddIdle
NextDiscoverWide ==
  \/ DiscLoad \/ DiscQueryWide \/ DiscQueryFail \/ DiscPoolFull \/ DiscQueriesDone
  \/ DiscVerify \/ DiscVerifyFail \/ DiscReturn
SpecDiscoverWide == InitDiscoverWide /\ [][NextDiscoverWide]_vars

InitScan == FetchInit /\ ScoreInit /\ ProbeInit /\ DiscIdle /\ ScanInit /\ StoreInit /\ PoolIdle /\ ParseIdle /\ RefreshIdle /\ DetectIdle /\ EmojiIdle /\ PmIdle /\ GwIdle /\ SizeIdle /\ TrivyIdle /\ AddIdle
NextScan == ScanAddResult \/ ScanAddVuln \/ ScanAddSecret \/ ScanBuildUrl
SpecScan == InitScan /\ [][NextScan]_vars

InitStore == FetchInit /\ ScoreInit /\ ProbeInit /\ DiscIdle /\ ScanIdle /\ StoreInit /\ PoolIdle /\ ParseIdle /\ RefreshIdle /\ DetectIdle /\ EmojiIdle /\ PmIdle /\ GwIdle /\ SizeIdle /\ TrivyIdle /\ AddIdle
NextStore == StoreUpsert \/ StoreRemove \/ StoreShardKey \/ StoreDamage
SpecStore == InitStore /\ [][NextStore]_vars

InitPool == FetchInit /\ ScoreInit /\ ProbeInit /\ DiscIdle /\ ScanIdle /\ PoolInit /\ ParseIdle /\ RefreshIdle /\ DetectIdle /\ EmojiIdle /\ PmIdle /\ GwIdle /\ SizeIdle /\ TrivyIdle /\ AddIdle
NextPool ==
  \/ PoolStart
  \/ \E w \in DOMAIN workers : PoolUpdateRead(w)
  \/ \E w \in DOMAIN workers : PoolWrite(w)
  \/ PoolSync
SpecPool == InitPool /\ [][NextPool]_vars

InitDetect == FetchInit /\ ScoreInit /\ ProbeInit /\ DiscIdle /\ ScanIdle /\ StoreInit /\ PoolIdle /\ ParseIdle /\ RefreshIdle /\ DetectInit /\ EmojiIdle /\ PmIdle /\ GwIdle /\ SizeIdle /\ TrivyIdle /\ AddIdle
NextDetect == DetectCall
SpecDetect == InitDetect /\ [][NextDetect]_vars

InitEmoji == FetchInit /\ ScoreInit /\ ProbeInit /\ DiscIdle /\ ScanIdle /\ StoreInit /\ PoolIdle /\ ParseIdle /\ RefreshIdle /\ DetectIdle /\ EmojiInit /\ PmIdle /\ GwIdle /\ SizeIdle /\ TrivyIdle /\ AddIdle
NextEmoji == EmojiPage
SpecEmoji == InitEmoji /\ [][NextEmoji]_vars

InitPm == FetchInit /\ ScoreInit /\ ProbeInit /\ DiscIdle /\ ScanIdle /\ StoreInit /\ PoolIdle /\ ParseIdle /\ RefreshIdle /\ DetectIdle /\ EmojiIdle /\ PmInit /\ GwIdle /\ SizeIdle /\ TrivyIdle /\ AddIdle
NextPm == PmCall
SpecPm == InitPm /\ [][NextPm]_vars

InitGw == FetchInit /\ ScoreInit /\ ProbeInit /\ DiscIdle /\ ScanIdle /\ StoreInit /\ PoolIdle /\ ParseIdle /\ RefreshIdle /\ DetectIdle /\ EmojiIdle /\ PmIdle /\ GwInit /\ SizeIdle /\ TrivyIdle /\ AddIdle
NextGw == GwHasPath \/ GwGetCount
SpecGw == InitGw /\ [][NextGw]_vars

InitSize == FetchInit /\ ScoreInit /\ ProbeInit /\ DiscIdle /\ ScanIdle /\ StoreInit /\ PoolIdle /\ ParseIdle /\ RefreshIdle /\ DetectIdle /\ EmojiIdle /\ PmIdle /\ GwIdle /\ SizeInit /\ TrivyIdle /\ AddIdle
NextSize == SizeCall
SpecSize == InitSize /\ [][NextSize]_vars

InitTrivy == FetchInit /\ ScoreInit /\ ProbeInit /\ DiscIdle /\ ScanIdle /\ StoreInit /\ PoolIdle /\ ParseIdle /\ RefreshIdle /\ DetectIdle /\ EmojiIdle /\ PmIdle /\ GwIdle /\ SizeIdle /\ TrivyInit /\ AddIdle
NextTrivy == TrivyScan
SpecTrivy == InitTrivy /\ [][NextTrivy]_vars

InitAdd == FetchInit /\ ScoreInit /\ ProbeInit /\ DiscIdle /\ ScanIdle /\ StoreInit /\ PoolIdle /\ ParseIdle /\ RefreshIdle /\ DetectIdle /\ EmojiIdle /\ PmIdle /\ GwIdle /\ SizeIdle /\ TrivyIdle /\ AddInit
NextAdd == AddCall
SpecAdd == InitAdd /\ [][NextAdd]_vars

InitRefresh == FetchInit /\ ScoreInit /\ ProbeInit /\ DiscIdle /\ ScanIdle /\ StoreInit /\ PoolIdle /\ ParseIdle /\ RefreshInit /\ DetectIdle /\ EmojiIdle /\ PmIdle /\ GwIdle /\ SizeIdle /\ TrivyIdle /\ AddIdle
NextRefresh == RefreshCall \/ RefreshWrite
SpecRefresh == InitRefresh /\ [][NextRefresh]_vars

InitParse == FetchInit /\ ScoreInit /\ ProbeInit /\ DiscIdle /\ ScanIdle /\ StoreInit /\ PoolIdle /\ ParseInit /\ RefreshIdle /\ DetectIdle /\ EmojiIdle /\ PmIdle /\ GwIdle /\ SizeIdle /\ TrivyIdle /\ AddIdle
NextParse == ParseCall
SpecParse == InitParse /\ [][NextParse]_vars


-----------------------------------------------------------------------------
(* Properties of fetchWithRetry (under SpecFetch).                         *)

Is2xx(status) == status \in 200..299
IsLimitStatus(status) == status \in {403, 429}
AllLimited(h) == \A i \in DOMAIN h : IsLimitStatus(h[i])

\* C1: a call makes at most 5 fetches; it returns exactly when a 2xx arrives, and
\* that 2xx is the first one (every earlier answer was 403/429); after five 403/429
\* answers it ends with the 'Max retries exceeded' error and fetches no more.
C1_AtMostFiveAttempts ==
  /\ fetches <= 5
  /\ Len(history) <= 5
  /\ fpc = "returned" =>
       /\ history # <<>>
       /\ Is2xx(history[Len(history)])
       /\ AllLimited(SubSeq(history, 1, Len(history) - 1))
       /\ result.kind = "response" /\ result.status = history[Len(history)]
  /\ (Len(history) = 5 /\ AllLimited(history)) =>
       /\ fpc \in {"sleeping", "loop", "threw"}
       /\ fpc = "loop" => attempt = 5
       /\ fpc = "threw" =>
            result = [kind |-> "Error",
                      message |-> "Max retries exceeded for GitHub API request."]
  /\ (fpc = "threw" /\ result.kind = "Error") =>
       (fetches = 5 /\ Len(history) = 5 /\ AllLimited(history))

C1_Witness ==
  /\ fpc = "threw" /\ result.kind = "Error" /\ fetches = 5
  /\ history = <<403, 429, 403, 403, 429>>

\* C2: every sleep after a 403/429 lasts between 1 s and 5 min, a computed wait
\* above 5 min is cut to exactly 5 min, and the wait is 90 s when neither header
\* is present.
C2_SleepWithinBounds ==
  fpc = "sleeping" =>
    /\ sleepMs >= 1000 /\ sleepMs <= 300000
    /\ (~resp.retryAfter.has /\ ~resp.rateLimitReset.has) => sleepMs = 90000
    /\ (Truthy(resp.retryAfter) /\ ~ParseInt(resp.retryAfter.val).nan
          /\ ParseInt(resp.retryAfter.val).v * 1000 > 300000) => sleepMs = 300000

\* C3: a non-2xx answer other than 403/429 ends the call on that attempt with a
\* GitHubError carrying its status and body, without a sleep for it; a 2xx answer
\* is returned, never thrown.
C3_ApiErrorOnOtherStatus ==
  /\ (history # <<>> /\ ~Is2xx(history[Len(history)])
        /\ ~IsLimitStatus(history[Len(history)])) =>
       /\ fpc = "threw"
       /\ result = [kind |-> "GitHubError", status |-> history[Len(history)],
                    body |-> resp.body]
       /\ resp.status = history[Len(history)]
       /\ fetches = Len(history)
       /\ attempt = Len(history) - 1
  /\ result.kind = "GitHubError" =>
       (~Is2xx(result.status) /\ ~IsLimitStatus(result.status))
  /\ (history # <<>> /\ Is2xx(history[Len(history)])) =>
       (fpc = "returned" /\ result.kind = "response")

C3_Witness ==
  /\ fpc = "threw" /\ result.kind = "GitHubError"
  /\ result.status = 404 /\ result.body = "Not Found"
  /\ history = <<403, 429, 404>> /\ attempt = 2

-----------------------------------------------------------------------------
(* Properties of the scorer and the gate (under SpecScore).                *)

FileCount == Cardinality({ i \in DOMAIN aiToolsIn : aiToolsIn[i].detected_via = "file" })
CommitCount == Cardinality({ i \in DOMAIN aiToolsIn : aiToolsIn[i].detected_via = "commits" })

\* C4: score = 4 x file items + 2 x commit items + 3 (bot) + 1 (any dash)
\* + 2 (two or more AI mentions) + 1 (a large commit), and is never negative.
C4_ScoreFormula ==
  /\ summary.score =
       4 * FileCount + 2 * CommitCount
       + (IF contribIn.hasClaudeBotContributor THEN 3 ELSE 0)
       + (IF cmsIn.emDashCount # 0 \/ cmsIn.enDashCount # 0 THEN 1 ELSE 0)
       + (IF cmsIn.aiMentionCount >= 2 THEN 2 ELSE 0)
       + (IF cssIn.largeCommitCount >= 1 THEN 1 ELSE 0)
  /\ summary.score >= 0

C4_Witness ==
  /\ FileCount = 2 /\ CommitCount = 1 /\ contribIn.hasClaudeBotContributor
  /\ cmsIn.enDashCount = 1 /\ cmsIn.aiMentionCount = 2 /\ cssIn.largeCommitCount = 1
  /\ summary.score = 17

\* C5: level is "high" exactly when score >= 9, "medium" exactly when
\* 5 <= score <= 8, "low" exactly when score <= 4.
C5_LevelBoundaries ==
  /\ summary.level = "high" <=> summary.score >= 9
  /\ summary.level = "medium" <=> (summary.score >= 5 /\ summary.score <= 8)
  /\ summary.level = "low" <=> summary.score <= 4

C5_Witness == summary.score = 9 /\ summary.level = "high"

StrongSignal ==
  FileCount > 0 \/ cmsIn.aiMentionCount >= 2 \/ contribIn.hasClaudeBotContributor

\* C6: the gate is true iff score >= 7 and (a file item exists or aiMentionCount >= 2
\* or a bot contributor matched), for the computed summary and for a hand-made one.
C6_GateIff ==
  /\ gate <=> (summary.score >= 7 /\ StrongSignal)
  /\ gateProbe # NoProbe => (gateProbe.out <=> (gateProbe.score >= 7 /\ StrongSignal))
  /\ summary.score < 7 => ~gate

C6_Witness ==
  /\ summary.score >= 7 /\ FileCount = 0 /\ cmsIn.aiMentionCount < 2
  /\ ~contribIn.hasClaudeBotContributor /\ ~gate
  /\ gateProbe = [score |-> 7, out |-> FALSE]

LevelRank(level) == CASE level = "low" -> 0 [] level = "medium" -> 1 [] level = "high" -> 2

\* A step that raises one input of the scorer and lowers none.
InputsRaised ==
  /\ Len(aiToolsIn') >= Len(aiToolsIn)
  /\ SubSeq(aiToolsIn', 1, Len(aiToolsIn)) = aiToolsIn
  /\ contribIn.hasClaudeBotContributor => contribIn'.hasClaudeBotContributor
  /\ cmsIn'.emDashCount >= cmsIn.emDashCount
  /\ cmsIn'.enDashCount >= cmsIn.enDashCount
  /\ cmsIn'.aiMentionCount >= cmsIn.aiMentionCount
  /\ cssIn'.largeCommitCount >= cssIn.largeCommitCount
  /\ <<aiToolsIn, cmsIn, cssIn, contribIn>>' # <<aiToolsIn, cmsIn, cssIn, contribIn>>

\* C7: raising an input (one more evidence item, the bot flag, a dash count, the
\* mention count, the large-commit count) never lowers the score nor the level.
C7_ScoreMonotone ==
  [][InputsRaised =>
       /\ summary'.score >= summary.score
       /\ LevelRank(summary'.level) >= LevelRank(summary.level)]_vars

C7_Witness ==
  /\ cmsIn.aiMentionCount = 3 /\ cmsIn.emDashCount = 1 /\ cmsIn.enDashCount = 1
  /\ Len(aiToolsIn) = 2 /\ summary.level = "high"

-----------------------------------------------------------------------------
(* Properties of the AI-tool probe (under SpecProbe).                      *)

\* The commits of the fetched page whose lower-cased message mentions `tool`.
Mentioning(tool) ==
  { i \in DOMAIN commits.items :
      \E k \in DOMAIN commitSignals :
        /\ commitSignals[k].tool = tool
        /\ \E t \in commitSignals[k].terms :
             Includes(ToLowerCase(MessageOf(commits.items[i])), t) }

\* C8: the evidence list never holds two items with the same tool name; a
\* commit-based item belongs to a tool the file probe did not find and carries the
\* permalink of the first commit that mentions the tool.
C8_OneItemPerTool ==
  /\ \A i, j \in DOMAIN aiTools : aiTools[i].name = aiTools[j].name => i = j
  /\ \A i \in DOMAIN aiTools :
       aiTools[i].detected_via = "commits" =>
         /\ \A p \in DOMAIN fileSignals :
              fileSignals[p].tool = aiTools[i].name =>
                ~\E j \in DOMAIN aiTools :
                    /\ aiTools[j].detected_via = "file"
                    /\ aiTools[j].name = fileSignals[p].tool
         /\ Mentioning(aiTools[i].name) # {}
         /\ \E c \in Mentioning(aiTools[i].name) :
              /\ \A c2 \in Mentioning(aiTools[i].name) : c <= c2
              /\ aiTools[i].evidence_url = commits.items[c].html_url

C8_Witness ==
  /\ ppc = "done"
  /\ Mentioning("claude") = {1, 2}
  /\ Mentioning("vibe") = {2}
  /\ \E i \in DOMAIN aiTools : aiTools[i].name = "claude" /\ aiTools[i].detected_via = "file"
  /\ \E i \in DOMAIN aiTools : aiTools[i].name = "vibe" /\ aiTools[i].detected_via = "commits"
  /\ Len(aiTools) = 2

\* The entries of fileSignals whose path was recorded as file evidence.
FoundEntries ==
  { j \in DOMAIN fileSignals :
      \E t \in DOMAIN aiTools :
        /\ aiTools[t].detected_via = "file"
        /\ aiTools[t].name = fileSignals[j].tool
        /\ aiTools[t].evidence_url[5] = fileSignals[j].path }
\* The entries of fileSignals an existence request was issued for.
ProbedEntries == { k \in DOMAIN fileSignals : \E i \in DOMAIN probes : probes[i] = fileSignals[k].path }

\* What the loop does: it requests every path of the list, in the order of the
\* list, whatever was found before.
EveryPathProbed ==
  /\ Len(probes) = sigIdx - 1
  /\ \A i \in DOMAIN probes : probes[i] = fileSignals[i].path

\* C30: once a path of a tool was found to exist, no existence request is issued
\* for a later path of the same tool.
C30_NoProbeAfterFound ==
  \A j \in FoundEntries : \A k \in ProbedEntries :
    k > j => fileSignals[k].tool # fileSignals[j].tool

-----------------------------------------------------------------------------
(* Properties of discover (under SpecDiscover).                            *)

Known == LowerSet(catalog) \cup LowerSet(denylist)

\* C9: no candidate, ranked candidate or returned repository has a lower-cased
\* full name that is in the catalog or in the denylist.
C9_NoKnownRepository ==
  LET known == Known IN
    /\ \A i \in DOMAIN candidates : ToLowerCase(candidates[i].key) \notin known
    /\ \A i \in DOMAIN prioritized : ToLowerCase(prioritized[i].key) \notin known
    /\ \A i \in DOMAIN verified : ToLowerCase(verified[i].full_name) \notin known
    /\ \A i \in DOMAIN returned : ToLowerCase(returned[i].full_name) \notin known

C9_Witness ==
  /\ dpc = "done" /\ returned # <<>>
  /\ \A n \in { <<"b", "/", "y">>, <<"B", "/", "Y">>, <<"c", "/", "z">> } :
       \E h \in searchHits : h[2] = n
  /\ <<"B", "/", "y">> \in catalog /\ <<"C", "/", "Z">> \in denylist

\* The gate, stated on the detection result attached to a returned entry.
PassedGate(v) ==
  /\ v.detectionSummary.score >= 7
  /\ \/ \E i \in DOMAIN v.aiTools : v.aiTools[i].detected_via = "file"
     \/ v.commitMessageSignals.aiMentionCount >= 2
     \/ v.contributorSignals.hasClaudeBotContributor

\* C10: at most `limit` repositories are accepted and returned, each of them passed
\* the gate on the detection result attached to it, and no detect() is started once
\* `limit` repositories have been accepted.
C10_StopsAtLimit ==
  /\ Len(verified) <= limit
  /\ Len(returned) <= limit
  /\ \A i \in DOMAIN verified : PassedGate(verified[i])
  /\ \A i \in DOMAIN returned : PassedGate(returned[i])
  /\ \A i \in DOMAIN detectLog : detectLog[i] < limit
  /\ dpc = "done" => returned = verified

C10_Witness ==
  /\ dpc = "done" /\ limit = 1 /\ Len(returned) = 1
  /\ Len(prioritized) >= 3 /\ vIdx = 3 /\ Len(detectLog) = 2

\* The query phase is over: the candidates were handed to the ranking.
QueryPhaseOver == dpc \in {"verify", "done"}

\* Index of a query string in the battery.
QueryIndex(q) == CHOOSE i \in DOMAIN queries : queries[i].query = q

\* Sum over the first j matched queries of (base weight + star bonus).
RECURSIVE WeightSum(_, _, _)
WeightSum(mq, stars, j) ==
  IF j = 0 THEN 0
  ELSE WeightSum(mq, stars, j - 1) + queries[QueryIndex(mq[j])].score + StarScore(stars)

\* matchedQueries is the list of the distinct queries that returned the name, in
\* issue order.
MatchedQueriesExact ==
  \A i \in DOMAIN candidates :
    LET c == candidates[i] IN
      /\ \A j, k \in DOMAIN c.matchedQueries :
           j < k => QueryIndex(c.matchedQueries[j]) < QueryIndex(c.matchedQueries[k])
      /\ { QueryIndex(c.matchedQueries[j]) : j \in DOMAIN c.matchedQueries }
           = { h[1] : h \in { g \in searchHits : g[2] = c.key } }

\* C11: at the end of the query phase each candidate's score is the sum, over its
\* matchedQueries, of (the query's base weight + min(3, floor(stars / 25))), and
\* matchedQueries lists exactly the queries that returned the repository, in
\* issue order, without duplicates.
C11_ScoreIsSumOverQueries ==
  QueryPhaseOver =>
    /\ \A i \in DOMAIN candidates :
         candidates[i].score = WeightSum(candidates[i].matchedQueries, candidates[i].stars,
                                         Len(candidates[i].matchedQueries))
    /\ MatchedQueriesExact

\* C12: the candidate pool never holds two entries whose full names are equal
\* ignoring letter case.
C12_OneCandidatePerLowerName ==
  \A i, j \in DOMAIN candidates :
    ToLowerCase(candidates[i].key) = ToLowerCase(candidates[j].key) => i = j

\* Progress of a run: every step of discover moves it forward.
Progress == (IF dpc = "start" THEN 0 ELSE IF dpc = "query" THEN 100
             ELSE IF dpc = "verify" THEN 200 ELSE 300) + qIdx + vIdx

\* The query loop is left only after the last query or at the pool cap; the
\* verification loop only after the last ranked candidate or at the limit.
LoopsRunToEnd ==
  /\ QueryPhaseOver => qIdx > Len(queries) \/ PoolFull(candidates, limit)
  /\ dpc = "done" => vIdx > Len(prioritized) \/ VerifiedEnough(verified, limit)
  /\ dpc = "done" => returned = verified
  /\ Progress <= 300 + Len(queries) + 1 + Len(prioritized) + 1

\* An iteration that threw changes nothing but the loop position: the next query,
\* or the next-ranked candidate, is the one the loop turns to.
CaughtStep ==
  /\ qIdx' # qIdx /\ lastStep'.query = "caught" =>
       dpc' = "query" /\ qIdx' = qIdx + 1 /\ candidates' = candidates
  /\ vIdx' # vIdx /\ lastStep'.detect = "caught" =>
       dpc' = "verify" /\ vIdx' = vIdx + 1 /\ verified' = verified

\* C13: whatever queries and detection passes fail, discover terminates (every
\* step raises a bounded measure) and returns the verified list; a failed query or
\* detection pass only moves its loop to the next element, and a loop is left
\* only at its end, at the pool cap or at the limit.
C13_FailuresAreSkipped ==
  /\ []LoopsRunToEnd
  /\ [][Progress' > Progress /\ CaughtStep]_vars

\* A query failed and a later one resolved, the candidates coming from query 6; the
\* detection pass of the first-ranked candidate failed and the second-ranked one was
\* verified and returned.
C13_Witness ==
  /\ dpc = "done" /\ limit = 1 /\ Len(returned) = 1
  /\ lastStep.query = "resumed" /\ \A h \in searchHits : h[1] = 6
  /\ lastStep.detect = "resumed" /\ vIdx = 3
  /\ Len(prioritized) >= 2 /\ returned[1].full_name = prioritized[2].key

\* What the loop does: the delay is slept at the end of an iteration that did
\* not throw, and only there.
SleepsAfterResolvedQuery ==
  qIdx > 1 => (querySleep = QueryDelayMs <=> lastStep.query # "caught")

\* C32: a 1.5 s delay is slept after every issued query regardless of its outcome,
\* also when the query failed.
C32_SleepAfterEveryQuery == qIdx > 1 => querySleep = QueryDelayMs

\* A search request is issued in this step.
SearchIssued == dpc = "query" /\ qIdx' # qIdx

\* The pages merged so far came from the queries before the current one.
HitsFromIssuedQueries == \A h \in searchHits : h[1] < qIdx

\* The cap is tested before a query only: a page adds at most PerPage entries to
\* a pool that was below the cap.
PoolBound == Len(candidates) <= 8 * limit - 1 + PerPage \/ candidates = <<>>

\* C33: the queries are issued strictly in the listed order, none is issued once
\* the pool holds at least 8 x limit entries, and the pool never exceeds
\* 8 x limit - 1 + 30 entries.
C33_QueriesStopAtCap ==
  /\ [](HitsFromIssuedQueries /\ PoolBound)
  /\ [][/\ qIdx' \in {qIdx, qIdx + 1}
        /\ SearchIssued =>
             /\ Len(candidates) < 8 * limit
             /\ Len(candidates') <= Len(candidates)
                                      + Cardinality({ h \in searchHits' : h[1] = qIdx })
             /\ Cardinality({ h \in searchHits' : h[1] = qIdx }) <= PerPage]_vars

\* With limit 1 the page of query 8 took the pool over the cap of 8: queries 9 to
\* 11 were not issued.
C33_Witness ==
  /\ QueryPhaseOver /\ limit = 1 /\ qIdx = 9
  /\ Len(candidates) > 8 /\ \A h \in searchHits : h[1] <= 8

\* a is ranked no later than b: higher score, or the same score and at least as
\* many stars.
RanksBefore(a, b) == a.score > b.score \/ (a.score = b.score /\ a.stars >= b.stars)

\* Position of a returned entry in the ranking.
RankOf(v) == CHOOSE k \in DOMAIN prioritized : prioritized[k].key = v.full_name

\* The ranking holds the 12 x limit best candidates, best first.
RankingIsTop ==
  /\ \A i, j \in DOMAIN prioritized : i < j => RanksBefore(prioritized[i], prioritized[j])
  /\ Len(prioritized) = IF Len(candidates) < 12 * limit THEN Len(candidates) ELSE 12 * limit
  /\ \A i \in DOMAIN prioritized : \E k \in DOMAIN candidates : candidates[k] = prioritized[i]
  /\ \A k \in DOMAIN candidates :
       (\A i \in DOMAIN prioritized : prioritized[i] # candidates[k])
         => \A i \in DOMAIN prioritized : RanksBefore(prioritized[i], candidates[k])

\* vs is a subsequence of the ranking up to the candidate being verified.
InRankOrder(vs) ==
  /\ \A i \in DOMAIN vs :
       /\ \E k \in DOMAIN prioritized : prioritized[k].key = vs[i].full_name
       /\ RankOf(vs[i]) < vIdx
       /\ PassedGate(vs[i])
  /\ \A i, j \in DOMAIN vs : i < j => RankOf(vs[i]) < RankOf(vs[j])

\* C34: candidates are verified in rank order (score descending, then stars
\* descending), only the top 12 x limit of the ranking are passed to detect(), and
\* the returned list is the subsequence of the ranking that passed the gate, in
\* the order of the ranking.
C34_VerifiedInRankOrder ==
  /\ [](QueryPhaseOver => RankingIsTop /\ InRankOrder(verified) /\ InRankOrder(returned))
  /\ [](Len(detectLog) = vIdx - 1 /\ vIdx <= Len(prioritized) + 1)
  /\ [][/\ vIdx' \in {vIdx, vIdx + 1}
        /\ vIdx' = vIdx + 1 =>
             \/ verified' = verified
             \/ /\ Len(verified') = Len(verified) + 1
                /\ SubSeq(verified', 1, Len(verified)) = verified
                /\ verified'[Len(verified')].full_name = prioritized[vIdx].key
        /\ vIdx' = vIdx => verified' = verified]_vars

\* Thirteen candidates were collected with limit 1: the ranking kept twelve, in
\* another order than the one they were found in, the first-ranked was skipped and
\* a later one was returned.
C34_Witness ==
  /\ dpc = "done" /\ limit = 1
  /\ Len(candidates) = 13 /\ Len(prioritized) = 12
  /\ prioritized[1] # candidates[1]
  /\ Len(returned) = 1 /\ returned[1].full_name = prioritized[3].key

\* The hits that carried the full name of candidate c, and their order.
HitsOf(c) == { h \in searchHits : h[2] = c.key }
HitBefore(g, h) == g[1] < h[1] \/ (g[1] = h[1] /\ g[3] < h[3])

\* Stars and description of a candidate, from the hits that carried its name:
\* the largest star count seen (0 when none was given) and the description of the
\* first hit that had one.
MergedFromHits(c) ==
  LET hs == HitsOf(c)
      counted == { h \in hs : h[4].stars.has }
      described == { h \in hs : h[4].description.has }
  IN  /\ hs # {}
      /\ \A h \in counted : c.stars >= h[4].stars.v
      /\ IF counted = {} THEN c.stars = 0 ELSE \E h \in counted : c.stars = h[4].stars.v
      /\ IF described = {} THEN ~c.description.has
         ELSE \E h \in described :
                /\ \A g \in described : g = h \/ HitBefore(h, g)
                /\ c.description = h[4].description

\* A hit for a candidate already in the pool never lowers its stars nor replaces
\* a description it has.
NeverRegresses ==
  \A k \in DOMAIN candidates :
    /\ k \in DOMAIN candidates' /\ candidates'[k].key = candidates[k].key
    /\ candidates'[k].stars >= candidates[k].stars
    /\ candidates[k].description.has => candidates'[k].description = candidates[k].description

\* C35: when a repository is seen again in a run, the candidate's star count is the
\* maximum of the previous and the new count and its description stays the first
\* non-null description seen; a later hit never lowers the stars nor replaces a
\* non-null description.
C35_MaxStarsFirstDescription ==
  /\ [](\A k \in DOMAIN candidates : MergedFromHits(candidates[k]))
  /\ [][NeverRegresses]_vars

\* A/x was returned with 80 stars and description d1 by the first query and with
\* 10 stars and no description by the sixth; a/x with no star count and d2, then
\* with 5 stars and d3.
C35_Witness ==
  /\ \E k \in DOMAIN candidates :
       /\ candidates[k].key = <<"A", "/", "x">> /\ candidates[k].stars = 80
       /\ candidates[k].description = Some("d1")
       /\ \E g, h \in HitsOf(candidates[k]) :
            g[1] = 1 /\ h[1] = 6 /\ g[4].stars = Some(80) /\ h[4].stars = Some(10)
  /\ \E k \in DOMAIN candidates :
       /\ candidates[k].key = <<"a", "/", "x">> /\ candidates[k].stars = 5
       /\ candidates[k].description = Some("d2")

-----------------------------------------------------------------------------
(* Properties of the vulnerability normalizer (under SpecScan).            *)

\* The findings of the report: <<result, 1, i>> is the i-th vulnerability of a
\* result and <<result, 2, i>> its i-th secret; Before is the report order.
Findings ==
  UNION { { <<r, 1, i>> : i \in DOMAIN report[r].Vulnerabilities } \cup
          { <<r, 2, i>> : i \in DOMAIN report[r].Secrets } : r \in DOMAIN report }
Before(p, q) ==
  \/ p[1] < q[1]
  \/ p[1] = q[1] /\ p[2] < q[2]
  \/ p[1] = q[1] /\ p[2] = q[2] /\ p[3] < q[3]
DetailAt(p) ==
  IF p[2] = 1 THEN VulnDetail(report[p[1]].Vulnerabilities[p[3]], report[p[1]], RepoName, scanRef)
  ELSE SecretDetail(report[p[1]].Secrets[p[3]], report[p[1]], RepoName, scanRef)
KeyOf(d) == IF d.type = "vuln" THEN VulnKey(d) ELSE SecretKey(d)
\* The finding a detail was made from: the first one of the report with its key.
IsFirstWithKey(p, d) ==
  /\ DetailAt(p) = d
  /\ \A q \in Findings : Before(q, p) => KeyOf(DetailAt(q)) # KeyOf(d)

\* C14: no two details share a dedup key; every detail is the first finding of the
\* report with its key, and every key of the report has a detail.
C14_OneDetailPerKey ==
  LET d == scanOut.details IN
    /\ \A a, b \in DOMAIN d : a # b => KeyOf(d[a]) # KeyOf(d[b])
    /\ \A a \in DOMAIN d : \E p \in Findings : IsFirstWithKey(p, d[a])
    /\ \A p \in Findings : \E a \in DOMAIN d : KeyOf(d[a]) = KeyOf(DetailAt(p))

\* Two results report the same package, version and id under different titles:
\* the detail of the first result is the one kept.
C14_Witness ==
  /\ Len(report) = 2 /\ FindingCount(report, 2) = 2
  /\ Len(report[1].Vulnerabilities) = 1 /\ Len(report[2].Vulnerabilities) = 1
  /\ report[1].Vulnerabilities[1].Title = Str(<<"u">>)
  /\ report[2].Vulnerabilities[1].Title = Str(<<"t">>)
  /\ Len(scanOut.details) = 1 /\ scanOut.details[1].title = <<"u">>

\* The summary line of a detail.
LineOf(d) ==
  IF d.type = "secret" THEN <<"S", "e", "c", "r", "e", "t", ":", " ">> \o d.title
  ELSE IF d.cve = <<>> THEN d.pkg \o <<"@">> \o d.version
  ELSE d.pkg \o <<"@">> \o d.version \o <<" ", "(">> \o d.cve \o <<")">>

\* C15: the summary has one line per detail (the same lines, as often), it is
\* sorted, and the details are in the order their findings come in the report.
C15_SummaryMatchesDetails ==
  LET d == scanOut.details
      sm == scanOut.summary
  IN  /\ Len(sm) = Len(d)
      /\ \A a \in DOMAIN d :
           Cardinality({ i \in DOMAIN sm : sm[i] = LineOf(d[a]) })
             = Cardinality({ b \in DOMAIN d : LineOf(d[b]) = LineOf(d[a]) })
      /\ \A i, j \in DOMAIN sm : i < j => ~StrLess(sm[j], sm[i])
      /\ \A a, b \in DOMAIN d :
           a < b => \E p, q \in Findings :
                      IsFirstWithKey(p, d[a]) /\ IsFirstWithKey(q, d[b]) /\ Before(p, q)

\* Two vulnerabilities whose lines are in descending order in the report, the
\* second without an id: the summary is in the opposite order to the details.
C15_Witness ==
  /\ Len(scanOut.details) = 2
  /\ scanOut.details[1].type = "vuln" /\ scanOut.details[2].type = "vuln"
  /\ scanOut.summary[1] = LineOf(scanOut.details[2])
  /\ scanOut.summary[2] = LineOf(scanOut.details[1])
  /\ scanOut.summary[1] # scanOut.summary[2]
  /\ scanOut.details[2].cve = <<>>

\* C16: every detail carries scannedRef, equal to the scanRef argument, and a
\* targetUrl built from that ref and the detail's target.
C16_DetailsCarryScanRef ==
  \A a \in DOMAIN scanOut.details :
    LET d == scanOut.details[a] IN
      /\ "scannedRef" \in DOMAIN d
      /\ d.scannedRef = scanRef
      /\ d.targetUrl = buildTargetUrl(RepoName, scanRef, Str(d.target))

\* The targetUrl half of C16 alone.
TargetUrlFromScanRef ==
  \A a \in DOMAIN scanOut.details :
    scanOut.details[a].targetUrl
      = buildTargetUrl(RepoName, scanRef, Str(scanOut.details[a].target))

\* s without a leading "./".
WithoutDotSlash(s) ==
  IF Len(s) >= 2 /\ SubSeq(s, 1, 2) = <<".", "/">> THEN SubSeq(s, 3, Len(s)) ELSE s
\* s without a leading "." and the run of "/" that follows it.
WithoutDotSlashes(s) ==
  IF Len(s) >= 2 /\ SubSeq(s, 1, 2) = <<".", "/">>
  THEN LET n == CHOOSE n \in 2..Len(s) :
                  /\ \A j \in 2..n : s[j] = "/"
                  /\ n = Len(s) \/ s[n + 1] # "/"
       IN  SubSeq(s, n + 1, Len(s))
  ELSE s
BlobUrl(in, path) ==
  Str(<<"https://github.com/">> \o in.fullName \o <<"/blob/">> \o in.ref \o <<"/">> \o path)

\* C17 as stated: undefined for a target that is undefined, empty, empty once a
\* leading "./" is stripped, or that contains "://"; otherwise the blob URL of the
\* target without its leading "./".
C17_TargetUrlAsStated ==
  urlIn # NoUrlCall =>
    LET t == urlIn.target IN
      IF ~t.has \/ t.v = <<>> \/ WithoutDotSlash(t.v) = <<>> \/ Includes(t.v, <<":", "/", "/">>)
      THEN urlOut = Undefined
      ELSE urlOut = BlobUrl(urlIn, WithoutDotSlash(t.v))

\* C17 amended: what is stripped is a leading "." with every "/" that follows it.
C17_TargetUrl ==
  urlIn # NoUrlCall =>
    LET t == urlIn.target IN
      IF ~t.has \/ t.v = <<>> \/ WithoutDotSlashes(t.v) = <<>> \/ Includes(t.v, <<":", "/", "/">>)
      THEN urlOut = Undefined
      ELSE urlOut = BlobUrl(urlIn, WithoutDotSlashes(t.v))

C17_Witness ==
  /\ urlIn.target = Str(<<".", "/", "/", "a">>) /\ urlIn.ref = <<"9", "f">>
  /\ urlOut = Str(<<"https://github.com/", "a", "/", "r", "/blob/", "9", "f", "/", "a">>)

-----------------------------------------------------------------------------
(* Properties of the catalog store (under SpecStore).                      *)

\* The owner segment of a name: what comes before its first "/".
OwnerSegment(n) ==
  CHOOSE o \in { SubSeq(n, 1, k) : k \in 0..Len(n) } :
    /\ \A i \in DOMAIN o : o[i] # "/"
    /\ Len(o) = Len(n) \/ n[Len(o) + 1] = "/"
IsLetter(c) ==
  \/ \E i \in DOMAIN UpperChars : UpperChars[i] = c
  \/ \E i \in DOMAIN LowerChars : LowerChars[i] = c
IsDigit(c) == c \in {"0", "1", "2", "3", "4", "5", "6", "7", "8", "9"}

\* C21: getShardKeyFor returns the lower-cased first character of the owner segment
\* when that character is a letter or a digit, and "other" otherwise, an empty owner
\* segment included.
C21_ShardKeyOfOwner ==
  lastOp.op = "key" =>
    LET owner == OwnerSegment(lastOp.name) IN
      IF owner # <<>> /\ (IsLetter(owner[1]) \/ IsDigit(owner[1]))
      THEN lastOp.key = LowerChar(owner[1])
      ELSE lastOp.key = "other"

\* An owner that begins with an upper-case letter goes to the shard of the
\* lower-case letter.
C21_Witness ==
  /\ lastOp.op = "key" /\ lastOp.name = <<"O", "t", "/", "r">> /\ lastOp.key = "o"

\* C19: readAllShards never returns two records whose full names are equal
\* ignoring case, and an upsert replaces the stored record whose name equals the
\* new one ignoring case.
C19_KeyedByLowerName ==
  LET all == readAllShards(Readable(shards, unreadable)) IN
    /\ \A i, j \in DOMAIN all :
         ToLowerCase(all[i].full_name) = ToLowerCase(all[j].full_name) => i = j
    /\ lastOp.op = "upsert" =>
         \A i \in DOMAIN all :
           ToLowerCase(all[i].full_name) = ToLowerCase(lastOp.name)
             => all[i].full_name = lastOp.name

\* What the code does keep: one record per exact full name, shards sorted.
OneRecordPerExactName ==
  LET all == readAllShards(Readable(shards, unreadable)) IN
    \A i, j \in DOMAIN all : all[i].full_name = all[j].full_name => i = j

\* C20: after upsertProject(project), the catalog read back holds a record of that
\* full name that is identical to the project written, field for field.
C20_RoundTrip ==
  lastOp.op = "upsert" =>
    \E i \in DOMAIN readAllShards(Readable(shards, unreadable)) :
      /\ readAllShards(Readable(shards, unreadable))[i].full_name = lastOp.name
      /\ readAllShards(Readable(shards, unreadable))[i] = lastOp.project

\* What does hold: the record read back is the written one as ProjectSchema parses it.
RoundTripOfParsed ==
  lastOp.op = "upsert" =>
    \E i \in DOMAIN readAllShards(Readable(shards, unreadable)) :
      readAllShards(Readable(shards, unreadable))[i] = ProjectSchemaParse(lastOp.project)

\* The step is an upsertProject call.
IsUpsertStep == lastOp'.op = "upsert" /\ <<shards, unreadable, lastOp>>' # <<shards, unreadable, lastOp>>
\* Every record of another name the shard file held is in the file afterwards.
OtherRecordsKept(key, name) ==
  key \in DOMAIN shards =>
    \A i \in DOMAIN shards[key] :
      shards[key][i].full_name # name
        => \E j \in DOMAIN shards'[key] : shards'[key][j] = shards[key][i]
\* No other shard file is written, created or removed.
OtherFilesUntouched(key) ==
  /\ DOMAIN shards' = DOMAIN shards \cup {key}
  /\ \A k \in DOMAIN shards \ {key} : shards'[k] = shards[k] /\ (k \in unreadable' <=> k \in unreadable)

\* An upsert into a shard file that reads without error keeps the other records
\* of the file, and an upsert writes no other file.
UpsertKeepsReadableShard ==
  [][IsUpsertStep =>
       LET key == getShardKey(lastOp'.name)
       IN  /\ OtherFilesUntouched(key)
           /\ key \notin unreadable => OtherRecordsKept(key, lastOp'.name)]_vars

\* C28: upsertProject(p) changes only the record of p.full_name: every other record
\* the shard file held before the call is in it afterwards and no other shard
\* file is written, also when the file could not be read or failed validation.
C28_UpsertKeepsOtherRecords ==
  [][IsUpsertStep =>
       LET key == getShardKey(lastOp'.name)
       IN  OtherFilesUntouched(key) /\ OtherRecordsKept(key, lastOp'.name)]_vars

-----------------------------------------------------------------------------
(* Properties of detect (under SpecDetect).                                *)

\* A failed collector shows as "no evidence" in the result d.
DegradesToNoEvidence(d) ==
  /\ detIn.commits.kind # "array" =>
       d.commitMessageSignals = ZeroMessages /\ d.commitSizeSignals = ZeroSizes
  /\ detIn.stats = [sha \in {} |-> Num(0)] => d.commitSizeSignals.largeCommitCount = 0
  /\ detIn.contributors.kind # "array" => d.contributorSignals = NoBot
  /\ detIn.issuesFail => d.emojis = 0
  /\ detIn.pathsFail =>
       /\ \A i \in DOMAIN d.aiTools : d.aiTools[i].detected_via # "file"
       /\ d.packageManager = Undefined
  /\ (detIn.pathsFail /\ detIn.workflowsFail) => ~d.hasSAST

\* C24: detect completes with a DetectionResult whatever collectors fail (repository
\* metadata, path checks, the commit list or a commit payload that is no array,
\* per-commit stats, contributors, issue pages, the workflow listing), each failed
\* collector counting as no evidence.
C24_DetectNeverThrows ==
  detOut # NotCalled => detOut.kind = "result" /\ DegradesToNoEvidence(detOut.d)

\* It does so as long as the commit payload is an array or the request rejects.
CompletesOnArrayPayload ==
  detOut # NotCalled =>
    IF detIn.commits.kind = "notArray" THEN detOut = Threw
    ELSE detOut.kind = "result" /\ DegradesToNoEvidence(detOut.d)

-----------------------------------------------------------------------------
(* Properties of fetchEmojiCount (under SpecEmoji).                        *)

\* The request was answered with 100 issues.
IsFullPage(ans) == ans.kind = "array" /\ Len(ans.items) = 100

\* The issues that carry a count, in the pages fetched so far.
CountedIssues ==
  { <<k, i>> \in (DOMAIN eLog) \X (1..100) :
      /\ eLog[k].answer.kind = "array" /\ i \in DOMAIN eLog[k].answer.items
      /\ eLog[k].answer.items[i].has }
\* The sum of their counts: each count value times the issues that carry it.
RECURSIVE SumOfCounts(_)
SumOfCounts(S) ==
  IF S = {} THEN 0
  ELSE LET x == CHOOSE x \in S : TRUE
           v == eLog[x[1]].answer.items[x[2]].v
           same == { y \in S : eLog[y[1]].answer.items[y[2]].v = v }
       IN  v * Cardinality(same) + SumOfCounts(S \ same)

\* C25: at most 5 pages are requested, pages 1, 2, ... in order; a page is requested
\* only after full pages; the call ends with the first page that has fewer than 100
\* issues, has none or fails, or with the fifth page; it returns the sum of the
\* counts of the issues of the pages fetched.
C25_EmojiPages ==
  LET n == Len(eLog) IN
    /\ n <= 5
    /\ \A k \in 1..n : eLog[k].page = k
    /\ \A k \in 1..(n - 1) : IsFullPage(eLog[k].answer)
    /\ epc = "done" <=> (n = 5 \/ (n > 0 /\ ~IsFullPage(eLog[n].answer)))
    /\ epc = "done" => eOut = Some(SumOfCounts(CountedIssues))

\* Two full pages, then a page that fails: the counts of the two pages are returned.
C25_Witness ==
  /\ epc = "done" /\ Len(eLog) = 3 /\ eLog[3].answer.kind = "rejected"
  /\ eLog[1].answer = FullPage(Some(5), Some(1)) /\ eLog[2].answer = FullPage(Some(5), Some(1))
  /\ eOut = Some(208)

-----------------------------------------------------------------------------
(* Properties of detectPackageManager (under SpecPm).                      *)

\* The file reported, "" when null was returned.
ReportedFile == IF pmOut.has THEN pmOut.v.detected_via ELSE ""
ListedFiles == { mapping[i][1] : i \in DOMAIN mapping }

\* The file reported is the first of the list that exists; null is returned when
\* none exists.
FirstListedFile ==
  pmIn.done =>
    IF pmIn.paths \cap ListedFiles = {} THEN pmOut = Undefined
    ELSE \E i \in DOMAIN mapping :
           /\ mapping[i][1] \in pmIn.paths /\ ReportedFile = mapping[i][1]
           /\ pmOut.v.name = mapping[i][2]
           /\ \A j \in 1..(i - 1) : mapping[j][1] \notin pmIn.paths

\* C26: the first existing file of the list is returned, null when there is none,
\* and the order favours lockfiles: with pnpm-lock.yaml the file reported is not
\* package.json; with poetry.lock or uv.lock it is neither pyproject.toml nor
\* requirements.txt.
C26_LockfileBeforeManifest ==
  /\ FirstListedFile
  /\ pmIn.done =>
       /\ "pnpm-lock.yaml" \in pmIn.paths => ReportedFile # "package.json"
       /\ ("poetry.lock" \in pmIn.paths \/ "uv.lock" \in pmIn.paths)
            => ReportedFile \notin { "pyproject.toml", "requirements.txt" }

-----------------------------------------------------------------------------
(* Properties of updateProject (under SpecRefresh).                        *)

\* The call went through: the metadata was fetched and a refreshed record returned.
WasRefreshed == refOut.done /\ refFresh.repoOk

\* The fields other than the scan's keep the previous value when the fresh one is
\* empty, zero or null.
KeepsPreviousExceptScan ==
  WasRefreshed =>
    LET d == refFresh.detect
        o == refOut.p
    IN  /\ (d.ok /\ d.aiTools = <<>>) => o.aiTools = refPrev.aiTools
        /\ (d.ok /\ d.emojis = 0) => o.emojis = refPrev.emojis
        /\ (d.ok /\ ~d.packageManager.has) => o.packageManager = refPrev.packageManager
        /\ refFresh.languages = <<>> => o.languages = refPrev.languages
        /\ (~refFresh.topics.has \/ refFresh.topics.v = <<>>) => o.topics = refPrev.topics
        /\ ~refFresh.commits.has => o.commits = refPrev.commits
        /\ ~refFresh.contributors.has => o.contributors = refPrev.contributors

\* C23: a refreshed record keeps the previous value of every field whose fresh value
\* is empty or falsy: aiTools, emojis, package manager, languages, topics, counts,
\* and the findings when the scan result is empty.
C23_KeepsPreviousOnEmpty ==
  /\ KeepsPreviousExceptScan
  /\ (WasRefreshed /\ refFresh.scan.ok /\ refFresh.scan.summary = <<>>
        /\ refFresh.scan.details = <<>>)
       => /\ refOut.p.vulnerableDependencies = refPrev.vulnerableDependencies
          /\ refOut.p.vulnerabilities = refPrev.vulnerabilities

\* The summary of a record is the one of the evidence and signals stored with it.
SummaryIsDerived(r) ==
  r.detectionSummary.has =>
    r.detectionSummary.v =
      calculateDetectionSummary(r.aiTools.v, r.commitMessageSignals.v,
                                r.commitSizeSignals.v, r.contributorSignals.v)

\* C29: after a refresh by updateProject, the detectionSummary of the record is
\* calculateDetectionSummary of the aiTools, commitMessageSignals, commitSizeSignals
\* and contributorSignals of the same record.
C29_SummaryDerivedFromStored ==
  refOut.done => SummaryIsDerived(refOut.p)

\* The records updateProject is given satisfy it.
InputSummariesDerived == refPrev # NotCalled => SummaryIsDerived(refPrev)

-----------------------------------------------------------------------------
(* Properties of the identity parser (under SpecParse).                    *)

\* The input names both path segments.
HasBothSegments(in) == in.owner # <<>> /\ in.hasRepo
\* The input is a URL (it has a protocol, "www." or a host) of another host than
\* github.com.
OtherHost(in) ==
  (in.proto # <<>> \/ in.www # <<>> \/ in.host # <<>>) /\ in.host # GithubHost

\* C22: parse returns owner/repo for an owner/repo string or a github.com URL, with
\* or without protocol, "www.", ".git", trailing slash, query string and white
\* space around; it returns null for an input without both path segments, an
\* empty input and a URL of another host.
C22_ParseCanonical ==
  parseIn.called =>
    LET in == parseIn.parts IN
      IF HasBothSegments(in) /\ ~OtherHost(in)
      THEN parseOut = Str(in.owner \o <<"/">> \o in.repo)
      ELSE parseOut = Undefined

\* Every optional part at once.
C22_Witness ==
  /\ parseIn.called
  /\ parseIn.parts.pad # <<>> /\ parseIn.parts.proto = HttpsProto /\ parseIn.parts.www # <<>>
  /\ parseIn.parts.host = GithubHost /\ parseIn.parts.git # <<>>
  /\ parseIn.parts.slash # <<>> /\ parseIn.parts.query # <<>>
  /\ parseOut = Str(<<"o", "-", "1", "/", "r", "_", ".", "x">>)

-----------------------------------------------------------------------------
(* Properties of the worker pool (under SpecPool).                         *)

\* Two full names of one repository.
SameRepository(a, b) == ToLowerCase(a) = ToLowerCase(b)

\* The queue discipline: a catalog record is shifted at most once, by the end
\* exactly once and its upsert has resolved; at most MAX_CONCURRENCY records are
\* in flight; a worker holds one record and every record it took before is finished.
QueueDiscipline ==
  /\ \A n \in DOMAIN takenBy : Len(takenBy[n]) <= 1
  /\ upc = "synced" => \A n \in DOMAIN takenBy : Len(takenBy[n]) = 1 /\ n \in finished
  /\ Cardinality({ w \in DOMAIN workers : Active(w) }) <= 5
  /\ \A n \in DOMAIN takenBy : \A w \in DOMAIN workers :
       takenBy[n] = <<w>> /\ ~(Active(w) /\ workers[w].p.full_name = n) => n \in finished
  /\ \A v, w \in DOMAIN workers :
       Active(v) /\ Active(w) /\ workers[v].p.full_name = workers[w].p.full_name => v = w

\* C18: every catalog project is taken by exactly one worker and processed once,
\* no two workers process the same repository at the same time, at most 5
\* projects are in flight, and a worker takes its next project only after the
\* upsert of the previous one.
C18_EachProjectOnce ==
  /\ QueueDiscipline
  /\ \A v, w \in DOMAIN workers :
       Active(v) /\ Active(w)
         /\ SameRepository(workers[v].p.full_name, workers[w].p.full_name) => v = w


\* The record the catalog held for the i-th repository when updateAll started.
StartRecord(i) == ProjectSchemaParse(Project(CatalogNames[i], Some(i), NoFlag, Str(<<"1">>)))
\* The repositories updateAll read from the catalog.
ReadAtStart == { i \in DOMAIN CatalogNames : CatalogNames[i] \in DOMAIN takenBy }
\* The catalog holds the record updateProject returned for the i-th repository.
HoldsRefreshed(i) ==
  LET all == readAllShards(shards)
  IN  \E k \in DOMAIN all : all[k] = ProjectSchemaParse(Refreshed(StartRecord(i)))
\* Another repository of the run is stored in the shard file of the i-th.
SharesShard(i) ==
  \E j \in ReadAtStart :
    j # i /\ getShardKey(CatalogNames[j]) = getShardKey(CatalogNames[i])

\* A repository that is alone in its shard file ends with its refreshed record,
\* and no record disappears from the catalog.
AloneInShardIsKept ==
  upc = "synced" =>
    /\ \A i \in ReadAtStart : ~SharesShard(i) => HoldsRefreshed(i)
    /\ \A i \in ReadAtStart :
         \E k \in DOMAIN readAllShards(shards) :
           readAllShards(shards)[k].full_name = CatalogNames[i]

\* C27: after updateAll finishes, the catalog holds for every project the record
\* its updateProject call returned; no upsert is lost to another worker that
\* rewrote the same shard file.
C27_NoLostUpsert == upc = "synced" => \A i \in ReadAtStart : HoldsRefreshed(i)


-----------------------------------------------------------------------------
(* Properties of hasPath and getCount (under SpecGw).                      *)

\* The call received a rate-limit response.
RateLimited == gwIn.done /\ ~gwIn.res.rejects /\ gwIn.res.status \in {403, 429}
\* The call reported "path absent" or "count unknown".
ReportedNothing ==
  \/ gwOut.ret = [kind |-> "boolean", v |-> FALSE]
  \/ gwOut.ret = [kind |-> "null"]

\* What the calls do: exactly one fetch whatever the response, and a response
\* that is not 200 (hasPath) or not ok (getCount) is reported as nothing found.
OneFetchPerCall ==
  gwIn.done =>
    /\ gwOut.fetches = 1
    /\ ~gwIn.res.rejects /\ gwIn.res.status # 200 /\ ~ResOk(gwIn.res) => ReportedNothing

\* C31: a path-existence check or a paginated count that receives a 403/429
\* rate-limit response is retried by the gateway, and is not reported as "path
\* absent" or "count unknown" after a single attempt.
C31_RateLimitIsRetried ==
  RateLimited => gwOut.fetches > 1 /\ ~(gwOut.fetches = 1 /\ ReportedNothing)


-----------------------------------------------------------------------------
(* Properties of analyzeCommitSizes (under SpecSize).                      *)

\* Positions, in the commits argument, of the first 8 commits that carry a sha.
SampledPositions ==
  { i \in DOMAIN szIn.commits :
      /\ szIn.commits[i].sha # <<>>
      /\ Cardinality({ j \in 1..i : szIn.commits[j].sha # <<>> }) <= 8 }

\* The k-th sampled position.
NthSampled(k) ==
  CHOOSE i \in SampledPositions : Cardinality({ j \in SampledPositions : j <= i }) = k

\* Changes counted for the k-th sampled commit: its total, 0 when the request
\* failed or the total is no number.
Counted(k) ==
  LET sha == szIn.commits[NthSampled(k)].sha
  IN  IF sha \in DOMAIN szIn.stats /\ ~szIn.stats[sha].nan THEN szIn.stats[sha].v ELSE 0

RECURSIVE CountedSum(_)
CountedSum(k) == IF k = 0 THEN 0 ELSE CountedSum(k - 1) + Counted(k)

\* m is x / d rounded to the nearest integer, halves upwards.
IsRounded(m, x, d) == 2 * d * m - d <= 2 * x /\ 2 * x < 2 * d * m + d

\* v is the k-th smallest of the counted changes.
IsKthSmallest(v, k, n) ==
  /\ \E j \in 1..n : Counted(j) = v
  /\ Cardinality({ j \in 1..n : Counted(j) < v }) < k
  /\ Cardinality({ j \in 1..n : Counted(j) <= v }) >= k

\* C36: the aggregator samples the first 8 commits that have a string sha, makes
\* one stats request per sampled commit, counts a failed or non-numeric fetch as 0,
\* and returns the number sampled, the rounded mean, the median (middle element,
\* or the rounded mean of the two middle elements) and the number of totals of at
\* least 500; all zeros when no commit has a sha.
C36_CommitSizeAggregates ==
  szIn.done =>
    LET n == Cardinality(SampledPositions)
        r == szOut.ret
    IN  /\ Len(szOut.requests) = n
        /\ \A k \in 1..n : szOut.requests[k] = szIn.commits[NthSampled(k)].sha
        /\ r.sampledCommits = n
        /\ r.largeCommitCount = Cardinality({ k \in 1..n : Counted(k) >= 500 })
        /\ IF n = 0 THEN r.avgChanges = 0 /\ r.medianChanges = 0
           ELSE /\ IsRounded(r.avgChanges, CountedSum(n), n)
                /\ IF n % 2 = 1 THEN IsKthSmallest(r.medianChanges, (n + 1) \div 2, n)
                   ELSE \E a, b \in { Counted(k) : k \in 1..n } :
                          /\ IsKthSmallest(a, n \div 2, n)
                          /\ IsKthSmallest(b, n \div 2 + 1, n)
                          /\ IsRounded(r.medianChanges, a + b, 2)

\* Ten commits, three of them without a sha: seven are sampled, the totals of
\* three are no numbers, two requests failed (totals 7, 0, 0, 0, 49, 0, 0).
C36_Witness ==
  /\ szIn.done /\ Len(szIn.commits) = 10 /\ Len(szOut.requests) = 7
  /\ szOut.requests[3] = <<"sha", 4>>
  /\ szOut.ret = [sampledCommits |-> 7, avgChanges |-> 8, medianChanges |-> 0,
                  largeCommitCount |-> 0]

\* Ten commits with totals 499, 501 and 500 six times: eight are sampled, the mean
\* and the median are 500 and seven totals are large.
SizesAtThreshold ==
  /\ szIn.done /\ Len(szOut.requests) = 8
  /\ szOut.ret = [sampledCommits |-> 8, avgChanges |-> 500, medianChanges |-> 500,
                  largeCommitCount |-> 7]

-----------------------------------------------------------------------------
(* Properties of scan                                                      *)

\* scan() has ended with an error.
ScanFailed == trivyIn.done /\ trivyOut = Threw

\* An exit code other than 0 and 1 is an error, whatever the scanner wrote.
UnexpectedExitIsError ==
  (trivyIn.done /\ trivyIn.code \notin {0, 1}) => ScanFailed

\* With exit code 0 or 1 and a report on the output, scan() returns the findings of
\* the report.
ReportIsReturned ==
  (trivyIn.done /\ trivyIn.code \in {0, 1} /\ trivyIn.out.kind = "report") =>
    /\ trivyOut.kind = "ok"
    /\ Len(trivyOut.ret.details) =
         Len(trivyIn.out.results) *
           (IF trivyIn.out.results = <<>> THEN 0
            ELSE Len(trivyIn.out.results[1].Vulnerabilities) + Len(trivyIn.out.results[1].Secrets))

\* C37: scan() fails when the exit code is neither 0 nor 1, and also when the exit
\* code is 0 or 1 but the output is not a report; it never returns an empty result
\* for output it could not read as a report.
C37_MalformedOutputIsError ==
  (trivyIn.done /\ (trivyIn.code \notin {0, 1} \/ trivyIn.out.kind # "report")) => ScanFailed

\* Exit code 0 and output that is not JSON: scan() returned the empty result.
MalformedOutputReturnedEmpty ==
  /\ trivyIn.done /\ trivyIn.code = 0 /\ trivyIn.out = Garbled
  /\ trivyOut = [kind |-> "ok", ret |-> [summary |-> <<>>, details |-> <<>>]]

-----------------------------------------------------------------------------
(* Properties of add                                                       *)

\* The records of the catalog before and after the last call of add.
RecordsBefore == { readAllShards(addCall.before)[i] : i \in DOMAIN readAllShards(addCall.before) }
RecordsAfter == { readAllShards(addFiles)[i] : i \in DOMAIN readAllShards(addFiles) }

\* The last call named a repository, and the records stored under that name.
AddNamed == addCall.done /\ parse(addCall.input).has
StoredAsNamed == { r \in RecordsBefore : r.full_name = parse(addCall.input).v }
StoredUpToCase ==
  { r \in RecordsBefore : ToLowerCase(r.full_name) = ToLowerCase(parse(addCall.input).v) }

\* The last call changed nothing and used neither the network nor the store.
AddDidNothing ==
  /\ addFiles = addCall.before
  /\ ~addCall.out.network /\ addCall.out.upserts = 0 /\ addCall.out.syncs = 0

\* A forced add whose metadata fetch succeeded stores the fetched metadata under
\* the name, and every call leaves the records of other names as they were.
ForcedAddStoresFetched ==
  /\ (AddNamed /\ addCall.force /\ addCall.repo.repoOk) =>
       \E r \in RecordsAfter :
         /\ r.full_name = parse(addCall.input).v
         /\ r.stars = Some(addCall.repo.stars)
         /\ r.lastUpdated = NowAt(addCall.n)
  /\ AddNamed => \A r \in RecordsBefore \ StoredAsNamed : r \in RecordsAfter

\* C38: when add(input, true) names a stored project and the metadata fetch or its
\* validation fails, the stored record is kept as it was.
C38_ForcedAddNeverRegresses ==
  (AddNamed /\ addCall.force /\ ~addCall.repo.repoOk) =>
    \A r \in StoredAsNamed : r \in RecordsAfter

\* add('a/r', true) on a catalog holding a/r with 5 stars, the fetch failing: the
\* record stored afterwards has the defaults of a bare record.
BareRecordReplacedStored ==
  /\ AddNamed /\ addCall.force /\ ~addCall.repo.repoOk
  /\ \E r \in StoredAsNamed : r.stars = Some(5)
  /\ \E r \in RecordsAfter :
       /\ r.full_name = parse(addCall.input).v
       /\ r.stars = Some(0) /\ r.is_archived = Flag(FALSE)

\* Without force, a name stored letter for letter is refused: add returns false,
\* changes nothing and calls neither the network nor the store.
ExactNameIsRefused ==
  (AddNamed /\ ~addCall.force /\ StoredAsNamed # {}) =>
    addCall.out.kind = "false" /\ AddDidNothing

\* An input parse rejects makes add throw before the catalog is read.
UnparsableThrowsFirst ==
  (addCall.done /\ ~parse(addCall.input).has) =>
    addCall.out.kind = "threw" /\ ~addCall.out.read /\ AddDidNothing

\* C39: without force, add returns false and changes nothing when the catalog holds
\* a record whose name equals the parsed name up to letter case, and an unparsable
\* input throws before anything is read or written.
C39_ExistingIsRefused ==
  /\ (AddNamed /\ ~addCall.force /\ StoredUpToCase # {}) =>
       addCall.out.kind = "false" /\ AddDidNothing
  /\ UnparsableThrowsFirst

\* add('A/R') on a catalog holding a/r: the call returned true and the catalog
\* holds both names.
OtherCaseWasAdded ==
  /\ AddNamed /\ ~addCall.force /\ StoredUpToCase # {} /\ StoredAsNamed = {}
  /\ addCall.out.kind = "true"
  /\ Cardinality({ r \in RecordsAfter : ToLowerCase(r.full_name) = <<"a", "/", "r">> }) = 2

-----------------------------------------------------------------------------
(* Failures during updateProject (under SpecRefresh and SpecPool).         *)

\* The records of the shard file stored under the name of p.
EntriesOf(p) == { refShard[i] : i \in { j \in DOMAIN refShard : refShard[j].full_name = p.full_name } }

\* The detection fields and the scan fields of a record.
DetectionFields(p) ==
  <<p.aiTools, p.emojis, p.packageManager, p.commitMessageSignals, p.commitSizeSignals,
    p.contributorSignals, p.detectionSummary, p.hasSAST>>
ScanFields(p) == <<p.vulnerableDependencies, p.vulnerabilities>>

\* The metadata of the returned record is the fetched one.
MetadataRefreshed ==
  /\ refOut.p.stars = Some(refFresh.stars)
  /\ refOut.p.lastUpdated = Str(<<"2">>)
  /\ refFresh.commits.has => refOut.p.commits = refFresh.commits

\* C40: when the metadata fetch or its validation throws, updateProject returns p
\* itself and the catalog entry of the project is the same before and after the
\* write-back; when only detect() throws the detection fields are those of p, when
\* only scan() throws the scan fields are those of p, and in both cases the rest of
\* the record is refreshed.
C40_FailedRefreshKeepsRecord ==
  /\ refPrev # NotCalled => EntriesOf(refPrev) = IF ~refOut.done \/ ~refOut.written \/ ~refFresh.repoOk
                                                 THEN {refPrev} ELSE {StoredForm(refOut.p)}
  /\ (refOut.done /\ ~refFresh.repoOk) => refOut.p = refPrev
  /\ (refOut.done /\ refFresh.repoOk /\ ~refFresh.detect.ok) =>
       /\ DetectionFields(refOut.p) = DetectionFields(refPrev)
       /\ MetadataRefreshed
       /\ refFresh.scan.ok => ScanFields(refOut.p) = <<Str(refFresh.scan.summary), Str(refFresh.scan.details)>>
  /\ (refOut.done /\ refFresh.repoOk /\ ~refFresh.scan.ok) =>
       /\ ScanFields(refOut.p) = ScanFields(refPrev)
       /\ MetadataRefreshed
       /\ refFresh.detect.ok =>
            /\ refOut.p.commitMessageSignals = Given(refFresh.detect.commitMessageSignals)
            /\ refOut.p.detectionSummary = Given(refFresh.detect.detectionSummary)

\* The refresh of a populated record failed as a whole and the record was written
\* back to a shard file it shares with another record.
C40_Witness ==
  /\ refOut.done /\ refOut.written /\ ~refFresh.repoOk
  /\ Len(refShard) = 2 /\ refPrev.topics = Str(<<"o", "l", "d">>)
  /\ refOut.p = refPrev /\ refPrev \in EntriesOf(refPrev)

\* Only detect() failed: the stored tool evidence is kept, the findings of the scan
\* and the stars are new, and the record was written back.
DetectionAloneFailed ==
  /\ refOut.done /\ refOut.written /\ refFresh.repoOk
  /\ ~refFresh.detect.ok /\ refFresh.scan.ok /\ refFresh.scan.summary # <<>>
  /\ refPrev.aiTools = Str(<<CursorFile>>) /\ refOut.p.aiTools = refPrev.aiTools
  /\ refOut.p.vulnerableDependencies = Str(refFresh.scan.summary)
  /\ refOut.p.stars = Some(6)

\* Only scan() failed: the stored findings are kept and the detection is new.
ScanAloneFailed ==
  /\ refOut.done /\ refOut.written /\ refFresh.repoOk
  /\ refFresh.detect.ok /\ ~refFresh.scan.ok
  /\ refFresh.detect.commitMessageSignals # refPrev.commitMessageSignals.v
  /\ refOut.p.vulnerabilities = Str(<< <<"d", "1">> >>)

\* Under the worker pool: the record of a repository whose refresh fails is in the
\* catalog as updateAll read it, at every moment of the run.
FailedRefreshLeavesEntry ==
  \A i \in ReadAtStart :
    Owner(CatalogNames[i]) \in FailingOwners =>
      \E k \in DOMAIN readAllShards(shards) : readAllShards(shards)[k] = StartRecord(i)

=============================================================================
